---- MODULE Spec2Model ----
(***************************************************************************)
(* Model of the banking server (server/server.py) and of the code it       *)
(* calls: the message codec (common/protocolo.py), the MAC primitives      *)
(* (common/crypto__utils.py), the validation pipeline                      *)
(* (server/crypto_server.py), the store (server/database.py), the          *)
(* authentication and transaction modules.                                 *)
(*                                                                         *)
(* Byte strings are sequences of one-character strings.  Time is counted   *)
(* in minutes.  An optional value (Python None or a value) is a sequence   *)
(* of length 0 or 1.                                                       *)
(***************************************************************************)
EXTENDS Integers, Sequences, FiniteSets, TLC

VARIABLES
    now,                  \* datetime.now(), in minutes
    usuarios,             \* table usuarios: set of rows
    nonces,               \* table nonces: set of rows
    transacciones,        \* table transacciones: sequence of rows, in id order
    intentos_login,       \* ServidorBancario.intentos_login (a defaultdict)
    contador_conexiones,  \* local of _aceptar_conexiones
    pc,                   \* per worker thread: where it is in _manejar_cliente
    num_conn,             \* per worker: argument num_conn of _manejar_cliente
    datos,                \* per worker: the bytes conn.recv returned
    resp,                 \* per worker: what was written to the socket
    mensajes,             \* per worker: local mensaje of _manejar_cliente
    exito,                \* per worker: local exito of _procesar_login
    msg,                  \* per worker: the message Autenticacion.login returned
    admitido,             \* per worker: how the call of validar_nonce ended
    cuenta,               \* history: per nonce value, outcomes of the validation
    racha,                \* history: per username, failures since the last reset
    primero,              \* history: per username, when the first of them was
    barridos,             \* history: the runs of limpiar_nonces_expirados, each
                          \* with its time and the count it returned
    tx_ok,                \* history: wire bytes of transaccion requests answered ok
    tx_origen,            \* history: per row of transacciones, the wire bytes
    repetido,             \* history, per worker: datos was in tx_ok when read
    activo,               \* ServidorBancario.activo
    socket_servidor,      \* ServidorBancario.socket_servidor: open or closed
    bucle                 \* where the main thread is: in accept() of
                          \* _aceptar_conexiones, past the loop, or exited

vars == <<activo, socket_servidor, bucle, msg, now, usuarios, nonces, transacciones, intentos_login,
          contador_conexiones, pc, num_conn, datos, resp, mensajes,
          exito, admitido, cuenta, racha, primero, barridos, tx_ok,
          tx_origen, repetido>>

(***************************************************************************)
(* Bounds of the model.                                                    *)
(***************************************************************************)
NumWorkers == 2
MaxConexiones == 2
MaxConexionesLogin == 6
MaxTime == 15

(***************************************************************************)
(* Program constants.                                                      *)
(***************************************************************************)
NONCE_SIZE == 32
MAX_INTENTOS_LOGIN == 5
TIEMPO_BLOQUEO == 15
VENTANA_INTENTOS == 5
DURACION_MINUTOS == 5

Workers == 1 .. NumWorkers

REGISTRO == "registro"
LOGIN == "login"
TRANSACCION == "transaccion"
LOGOUT == "logout"
RESPUESTA == "respuesta"

\* Config.get_shared_key()
clave_compartida == "SHARED_KEY"

(***************************************************************************)
(* Test data: user names, passwords (sequences of characters), nonces.     *)
(***************************************************************************)
PASS_OK == <<"C","o","r","r","e","c","t","_","P","a","s","s","1","2","3","!">>
PASS_MAL == <<"W","r","o","n","g","_","P","a","s","s","w","o","r","d","_","1","2","3","!">>
PASS_DEBIL == <<"a","b","c">>
\* passwords of 12 characters that break several rules of _validar_password
PASS_BLANCA == <<" "," "," "," "," "," "," "," "," "," "," "," ">>
PASS_MINUSCULAS == <<"a","b","c","d","e","f","g","h","i","j","k","l">>
PASS_MAYUSCULAS == <<"A","B","C","D","E","F","G","H","I","J","K","L">>
PASS_LETRAS == <<"A","B","C","D","E","F","g","h","i","j","k","l">>
PASS_SIN_SIMBOLO == <<"A","B","C","D","E","F","g","h","i","j","k","1">>
Passwords ==
    {PASS_OK, PASS_MAL, PASS_DEBIL, PASS_BLANCA, PASS_MINUSCULAS,
     PASS_MAYUSCULAS, PASS_LETRAS, PASS_SIN_SIMBOLO}

Usernames == {"alice", "bob"}

\* secrets.token_bytes(NONCE_SIZE): NonceCliente(k) are distinct for
\* k in 0 .. NONCE_SIZE; NonceBlanco begins with a JSON whitespace byte.
NonceCliente(k) == [i \in 1 .. NONCE_SIZE |-> IF i <= k THEN "b" ELSE "a"]
NonceBlanco == [i \in 1 .. NONCE_SIZE |-> IF i = 1 THEN " " ELSE "a"]

(***************************************************************************)
(* JSON.  json.dumps of an object is its text; the last byte of the text   *)
(* of an object is always the closing brace, kept as a byte of its own.    *)
(* json.loads skips leading and trailing whitespace and gives back the     *)
(* object whose text it reads, or fails.                                   *)
(***************************************************************************)
Blancos == {" "}

RECURSIVE lstrip(_)
lstrip(s) == IF s # <<>> /\ Head(s) \in Blancos THEN lstrip(Tail(s)) ELSE s

RECURSIVE rstrip(_)
rstrip(s) ==
    IF s # <<>> /\ s[Len(s)] \in Blancos
    THEN rstrip(SubSeq(s, 1, Len(s) - 1))
    ELSE s

Mensaje(tipo, d) == [tipo |-> tipo, datos |-> d]

Credenciales(u, p) == [username |-> u, password |-> p]

Transferencia(u, o, d, c) ==
    [username |-> u, cuenta_origen |-> o, cuenta_destino |-> d, cantidad |-> c]

\* a JSON number, and a JSON string holding the digits of a number
Numero(v) == [tipo |-> "float", v |-> v]
Cadena(v) == [tipo |-> "str", v |-> v]

\* The objects whose JSON text occurs in the model.
Documentos ==
    {Mensaje(t, Credenciales(u, p)) :
        t \in {REGISTRO, LOGIN, LOGOUT, RESPUESTA, "saldo"},
        u \in Usernames \cup {""},
        p \in Passwords}
    \cup {Mensaje(TRANSACCION, Transferencia(u, "ES1234", "ES5678", c)) :
        u \in Usernames, c \in {Numero(0), Numero(100), Numero(-5), Cadena(100)}}
    \cup {Mensaje(TRANSACCION, [username |-> u, cuenta_origen |-> "ES1234"]) :
        u \in Usernames}
    \cup {Mensaje(t, Credenciales(u, <<>>)) :
        t \in {REGISTRO, LOGIN}, u \in Usernames}
    \cup {Mensaje(t, [username |-> u]) : t \in {REGISTRO, LOGIN}, u \in Usernames}
    \cup {Mensaje(t, [password |-> PASS_OK]) : t \in {REGISTRO, LOGIN}}

\* the text of each of them
TextoJson == [o \in Documentos |-> ToString(o)]

\* json.dumps: the text of the document that obj is
json_dumps(obj) == <<TextoJson[CHOOSE o \in Documentos : o = obj], "}">>

json_loads(bytes) ==
    LET s == lstrip(rstrip(bytes))
        objs == IF Len(s) = 2 /\ s[2] = "}"
                THEN {o \in Documentos : TextoJson[o] = s[1]}
                ELSE {}
    IN  IF objs = {} THEN [ok |-> FALSE, obj |-> <<>>]
        ELSE [ok |-> TRUE, obj |-> <<CHOOSE o \in objs : TRUE>>]

(***************************************************************************)
(* common/crypto__utils.py.  HMAC-SHA256 is a keyed function that is       *)
(* injective in the bytes it is given, which are mensaje + nonce.          *)
(***************************************************************************)
hmac_sha256(clave, bytes) == <<"hmac-sha256", clave, bytes>>

calcular_mac(clave, mensaje, nonce) == hmac_sha256(clave, mensaje \o nonce)

\* verificar_mac without the comparison
verificar_mac_siempre(clave, mensaje, nonce, mac_recibido) == TRUE

\* verificar_mac comparing the lengths of the two tags only
verificar_mac_largo(clave, mensaje, nonce, mac_recibido) ==
    Len(calcular_mac(clave, mensaje, nonce)) = Len(mac_recibido)

verificar_mac(clave, mensaje, nonce, mac_recibido) ==
    calcular_mac(clave, mensaje, nonce) = mac_recibido

(***************************************************************************)
(* common/protocolo.py.  base64 wraps and unwraps; the wire bytes of a     *)
(* package are its JSON text, modelled by the package itself.              *)
(***************************************************************************)
b64encode(x) == <<"b64", x>>

Paquete(mensaje, mac, nonce) ==
    [crudo |-> "json",
     paquete |-> [mensaje |-> b64encode(mensaje), mac |-> b64encode(mac),
                  nonce |-> b64encode(nonce)]]

BytesCrudos(texto) == [crudo |-> texto, paquete |-> <<>>]
SinDatos == BytesCrudos("")
Basura == BytesCrudos("BASURA_NO_JSON_12345")

\* Mensaje.serializar and Mensaje.empaquetar, with the nonce generar_nonce drew
serializar(m, clave, nonce) ==
    LET mensaje_json == json_dumps(m)
    IN  <<mensaje_json, calcular_mac(clave, mensaje_json, nonce), nonce>>

empaquetar(m, clave, nonce) ==
    LET s == serializar(m, clave, nonce) IN Paquete(s[1], s[2], s[3])

\* base64.b64decode giving back the text it was handed
b64decode_crudo(s) == s

b64decode(s) == s[2]

\* Mensaje.desempaquetar giving empty fields where it raises
desempaquetar_laxo(paquete_bytes) ==
    IF paquete_bytes.crudo = "json"
       /\ {"mensaje", "mac", "nonce"} \subseteq DOMAIN paquete_bytes.paquete
    THEN [ok |-> TRUE,
          mensaje |-> b64decode(paquete_bytes.paquete.mensaje),
          mac |-> b64decode(paquete_bytes.paquete.mac),
          nonce |-> b64decode(paquete_bytes.paquete.nonce)]
    ELSE [ok |-> TRUE, mensaje |-> <<>>, mac |-> <<>>, nonce |-> <<>>]

\* Mensaje.desempaquetar: ok = FALSE stands for the exception json.loads,
\* the key lookup or b64decode raises
desempaquetar(paquete_bytes) ==
    IF paquete_bytes.crudo = "json"
       /\ {"mensaje", "mac", "nonce"} \subseteq DOMAIN paquete_bytes.paquete
    THEN [ok |-> TRUE,
          mensaje |-> b64decode(paquete_bytes.paquete.mensaje),
          mac |-> b64decode(paquete_bytes.paquete.mac),
          nonce |-> b64decode(paquete_bytes.paquete.nonce)]
    ELSE [ok |-> FALSE, mensaje |-> <<>>, mac |-> <<>>, nonce |-> <<>>]

\* Mensaje.desde_json: ok = FALSE stands for the exception it raises
SinMensaje == [ok |-> FALSE, tipo |-> "", datos |-> <<>>]

desde_json(mensaje_json) ==
    LET r == json_loads(mensaje_json)
    IN  IF r.ok /\ {"tipo", "datos"} \subseteq DOMAIN r.obj[1]
        THEN [ok |-> TRUE, tipo |-> r.obj[1].tipo, datos |-> r.obj[1].datos]
        ELSE SinMensaje

(***************************************************************************)
(* Responses (_enviar_ok, _enviar_error).  A message is its text with the  *)
(* number formatted into it, if any, kept apart as n.                      *)
(***************************************************************************)
Respuesta(status, texto, n) == [status |-> status, texto |-> texto, n |-> n]
SinRespuesta == Respuesta("", "", 0)

enviar_ok(texto, n) == Respuesta("ok", texto, n)
enviar_error(texto, n) == Respuesta("error", texto, n)

MSG_MALFORMADO == "Mensaje malformado"
MSG_MAC == "MAC invalido - Integridad comprometida"
MSG_NONCE == "NONCE ya usado - Replay attack detectado"
MSG_TIPO == "Tipo de mensaje no soportado"
MSG_FALTA_REGISTRO == "Faltan datos de registro"
MSG_FALTA_LOGIN == "Faltan credenciales"
MSG_FALTA_TX == "Faltan datos de la transaccion"
MSG_PW_LARGO == "La contrasena debe tener al menos 12 caracteres"
MSG_PW_VACIA == "La contrasena no puede estar vacia"
MSG_PW_MAYUS == "Debe contener al menos una letra mayuscula (A-Z)"
MSG_PW_MINUS == "Debe contener al menos una letra minuscula (a-z)"
MSG_PW_NUMERO == "Debe contener al menos un numero (0-9)"
MSG_PW_SIMBOLO == "Debe contener al menos un caracter especial (!@#$%...)"
MSG_EXISTE == "El usuario ya existe"
MSG_ERROR_CREAR == "Error al crear el usuario"
MSG_REGISTRADO == "Usuario registrado exitosamente"
MSG_LOGIN_OK == "Login exitoso"
MSG_CREDENCIALES == "Credenciales incorrectas"
SUF_RESTANTES == ". Intentos restantes: {n}"
SUF_BLOQUEADO_POR == ". Usuario bloqueado por {n} minutos"
MSG_RESTANTES == MSG_CREDENCIALES \o SUF_RESTANTES
MSG_BLOQUEADO_POR == MSG_CREDENCIALES \o SUF_BLOQUEADO_POR
MSG_BLOQUEADO == "Usuario bloqueado. Intenta en {n} minuto(s)"
MSG_TX_OK == "Transferencia completada (ID: {n})"
MSG_TX_ERROR == "Error al procesar la transferencia"

(***************************************************************************)
(* server/crypto_server.py: Argon2id.  A hash carries its salt; verifying  *)
(* recomputes the digest of the offered password under that salt.          *)
(***************************************************************************)
Sales == {"salt1", "salt2"}

argon2id(salt, password) == <<"digest", salt, password>>

hashear_password(password, salt) ==
    [alg |-> "$argon2id", salt |-> salt, digest |-> argon2id(salt, password)]

\* verificar_password that takes every password
verificar_password_siempre(password_hash, password) == TRUE

verificar_password(password_hash, password) ==
    argon2id(password_hash.salt, password) = password_hash.digest

(***************************************************************************)
(* server/database.py.  The UNIQUE constraints of the schema make an       *)
(* INSERT of a taken value fail with sqlite3.IntegrityError.               *)
(***************************************************************************)
UnicoValor(tabla, valor) == \A r \in tabla : r.valor # valor
UnicoUsername(tabla, username) == \A r \in tabla : r.username # username

\* the SELECT of obtener_password_hash: the hash, or None
obtener_password_hash(tabla, username) ==
    IF \E r \in tabla : r.username = username
    THEN <<(CHOOSE r \in tabla : r.username = username).password_hash>>
    ELSE <<>>

\* usuario_existe that finds no row
usuario_existe_nunca(tabla, username) == FALSE

usuario_existe(tabla, username) == obtener_password_hash(tabla, username) # <<>>

\* validar_nonce without its SELECT
nonce_registrado_sin_select(tabla, nonce) == FALSE

\* validar_nonce whose SELECT sees only the rows that have not expired
nonce_registrado_vigente(tabla, nonce) ==
    \E r \in tabla : r.valor = nonce /\ r.expira >= now

\* the SELECT of validar_nonce
nonce_registrado(tabla, nonce) == \E r \in tabla : r.valor = nonce

\* limpiar_nonces_expirados deleting also the rows that expire at ahora
limpiar_nonces_expirados_inclusive(tabla, ahora) ==
    LET borradas == {r \in tabla : r.expira <= ahora}
    IN  [tabla |-> tabla \ borradas, eliminados |-> Cardinality(borradas)]

\* limpiar_nonces_expirados: DELETE FROM nonces WHERE expira < ahora, and
\* cursor.rowcount
limpiar_nonces_expirados(tabla, ahora) ==
    LET borradas == {r \in tabla : r.expira < ahora}
    IN  [tabla |-> tabla \ borradas, eliminados |-> Cardinality(borradas)]

\* validar_nonce storing the 16 bytes of the nonce it logs
fila_nonce_truncado(nonce, ahora, duracion_minutos) ==
    [valor |-> SubSeq(nonce, 1, 16), expira |-> ahora + duracion_minutos]

\* the row validar_nonce inserts
fila_nonce(nonce, ahora, duracion_minutos) ==
    [valor |-> nonce, expira |-> ahora + duracion_minutos]

\* the row registrar_transaccion inserts; id is cursor.lastrowid
\* registrar_transaccion binding the two accounts in the other order
fila_transaccion_cruzada(tabla, username, cuenta_origen, cuenta_destino, cantidad, mac_verificado) ==
    [id |-> Len(tabla) + 1, username |-> username,
     cuenta_origen |-> cuenta_destino, cuenta_destino |-> cuenta_origen,
     cantidad |-> cantidad, mac_verificado |-> mac_verificado]

\* registrar_transaccion giving cursor.rowcount for the id
fila_transaccion_rowcount(tabla, username, cuenta_origen, cuenta_destino, cantidad, mac_verificado) ==
    [id |-> 1, username |-> username,
     cuenta_origen |-> cuenta_origen, cuenta_destino |-> cuenta_destino,
     cantidad |-> cantidad, mac_verificado |-> mac_verificado]

fila_transaccion(tabla, username, cuenta_origen, cuenta_destino, cantidad, mac_verificado) ==
    [id |-> Len(tabla) + 1, username |-> username,
     cuenta_origen |-> cuenta_origen, cuenta_destino |-> cuenta_destino,
     cantidad |-> cantidad, mac_verificado |-> mac_verificado]

\* obtener_transacciones_usuario: the rows of username (their order, by
\* timestamp, is left out)
obtener_transacciones_usuario(tabla, username) ==
    {tabla[i] : i \in {j \in DOMAIN tabla : tabla[j].username = username}}

(***************************************************************************)
(* ServidorBancario._validar_password.                                     *)
(***************************************************************************)
\* (the character class of symbols also holds the backquote, which this
\* notation cannot write in a string)
Mayusculas == {"A","B","C","D","E","F","G","H","I","J","K","L","M","N","O",
               "P","Q","R","S","T","U","V","W","X","Y","Z"}
Minusculas == {"a","b","c","d","e","f","g","h","i","j","k","l","m","n","o",
               "p","q","r","s","t","u","v","w","x","y","z"}
Digitos == {"0","1","2","3","4","5","6","7","8","9"}
Simbolos == {"!","@","#","$","%","^","&","*","(",")",",",".","?","\"",":",
             "{","}","|","<",">","_","-","+","=","[","]","\\","/","~"}
EspaciosStrip == {" ", "\t", "\n", "\r"}

Contiene(password, clase) == \E i \in 1 .. Len(password) : password[i] \in clase

\* _validar_password that takes every password
validar_password_nula(password) == [ok |-> TRUE, msg |-> ""]

validar_password(password) ==
    IF Len(password) < 12 THEN [ok |-> FALSE, msg |-> MSG_PW_LARGO]
    ELSE IF \A i \in 1 .. Len(password) : password[i] \in EspaciosStrip
    THEN [ok |-> FALSE, msg |-> MSG_PW_VACIA]
    ELSE IF ~Contiene(password, Mayusculas) THEN [ok |-> FALSE, msg |-> MSG_PW_MAYUS]
    ELSE IF ~Contiene(password, Minusculas) THEN [ok |-> FALSE, msg |-> MSG_PW_MINUS]
    ELSE IF ~Contiene(password, Digitos) THEN [ok |-> FALSE, msg |-> MSG_PW_NUMERO]
    ELSE IF ~Contiene(password, Simbolos) THEN [ok |-> FALSE, msg |-> MSG_PW_SIMBOLO]
    ELSE [ok |-> TRUE, msg |-> ""]

(***************************************************************************)
(* dict.get on the datos of a message, and Python truth of what it gives.  *)
(***************************************************************************)
get(d, k) == IF k \in DOMAIN d THEN <<d[k]>> ELSE <<>>

\* not x, for x a str (username, accounts), a str held as characters
\* (password) and a number (cantidad)
FaltaTexto(o) == o = <<>> \/ o[1] = ""
FaltaCaracteres(o) == o = <<>> \/ o[1] = <<>>
FaltaNumero(o) == o = <<>> \/ o[1] = Numero(0)

\* whether f"{cantidad:.2f}" formats: it raises ValueError for a str
formatea_2f(cantidad) == cantidad.tipo = "float"

(***************************************************************************)
(* The login-attempt map: intentos_login[username] creates the default     *)
(* entry when there is none.                                               *)
(***************************************************************************)
EstadoInicial == [intentos |-> 0, bloqueado_hasta |-> <<>>, ultimo_intento |-> <<>>]

Estado(mapa, username) ==
    IF username \in DOMAIN mapa THEN mapa[username] ELSE EstadoInicial

Poner(mapa, username, estado) ==
    [u \in DOMAIN mapa \cup {username} |->
        IF u = username THEN estado ELSE mapa[u]]

\* int(tiempo_restante.total_seconds() / 60) + 1
minutos_restantes(segundos) == (segundos \div 60) + 1

\* _verificar_rate_limit_login without the test of bloqueado_hasta
verificar_rate_limit_login_sin_bloqueo(estado, ahora) ==
    [puede |-> TRUE, minutos |-> 0, estado |-> estado]

\* _verificar_rate_limit_login that records the attempt it denies
verificar_rate_limit_login_anota(estado, ahora) ==
    IF estado.bloqueado_hasta # <<>> /\ ahora < estado.bloqueado_hasta[1]
    THEN [puede |-> FALSE,
          minutos |-> minutos_restantes((estado.bloqueado_hasta[1] - ahora) * 60),
          estado |-> [estado EXCEPT !.intentos = @ + 1,
                                    !.bloqueado_hasta = <<ahora + TIEMPO_BLOQUEO>>]]
    ELSE LET e1 == IF estado.bloqueado_hasta # <<>>
                      /\ ahora >= estado.bloqueado_hasta[1]
                   THEN [estado EXCEPT !.intentos = 0, !.bloqueado_hasta = <<>>]
                   ELSE estado
             e2 == IF e1.ultimo_intento # <<>>
                      /\ ahora - e1.ultimo_intento[1] > VENTANA_INTENTOS
                   THEN [e1 EXCEPT !.intentos = 0]
                   ELSE e1
         IN  [puede |-> TRUE, minutos |-> 0, estado |-> e2]

\* _verificar_rate_limit_login that leaves an expired lock in the entry
verificar_rate_limit_login_sin_expirar(estado, ahora) ==
    IF estado.bloqueado_hasta # <<>> /\ ahora < estado.bloqueado_hasta[1]
    THEN [puede |-> FALSE,
          minutos |-> minutos_restantes((estado.bloqueado_hasta[1] - ahora) * 60),
          estado |-> estado]
    ELSE LET e2 == IF estado.ultimo_intento # <<>>
                      /\ ahora - estado.ultimo_intento[1] > VENTANA_INTENTOS
                   THEN [estado EXCEPT !.intentos = 0]
                   ELSE estado
         IN  [puede |-> TRUE, minutos |-> 0, estado |-> e2]

\* _verificar_rate_limit_login: (puede_intentar, the number in the message,
\* the entry it leaves)
verificar_rate_limit_login(estado, ahora) ==
    IF estado.bloqueado_hasta # <<>> /\ ahora < estado.bloqueado_hasta[1]
    THEN [puede |-> FALSE,
          minutos |-> minutos_restantes((estado.bloqueado_hasta[1] - ahora) * 60),
          estado |-> estado]
    ELSE LET e1 == IF estado.bloqueado_hasta # <<>>
                      /\ ahora >= estado.bloqueado_hasta[1]
                   THEN [estado EXCEPT !.intentos = 0, !.bloqueado_hasta = <<>>]
                   ELSE estado
             e2 == IF e1.ultimo_intento # <<>>
                      /\ ahora - e1.ultimo_intento[1] > VENTANA_INTENTOS
                   THEN [e1 EXCEPT !.intentos = 0]
                   ELSE e1
         IN  [puede |-> TRUE, minutos |-> 0, estado |-> e2]

\* _registrar_intento_login whose success keeps the counter and the lock
registrar_intento_login_sin_reinicio(estado, exitoso, ahora) ==
    IF exitoso
    THEN [estado EXCEPT !.ultimo_intento = <<ahora>>]
    ELSE LET n == estado.intentos + 1
         IN  [intentos |-> n,
              bloqueado_hasta |->
                  IF n >= MAX_INTENTOS_LOGIN
                  THEN <<ahora + TIEMPO_BLOQUEO>>
                  ELSE estado.bloqueado_hasta,
              ultimo_intento |-> <<ahora>>]

\* _registrar_intento_login locking when the limit is exceeded, not reached
registrar_intento_login_mayor(estado, exitoso, ahora) ==
    IF exitoso
    THEN [intentos |-> 0, bloqueado_hasta |-> <<>>, ultimo_intento |-> <<ahora>>]
    ELSE LET n == estado.intentos + 1
         IN  [intentos |-> n,
              bloqueado_hasta |->
                  IF n > MAX_INTENTOS_LOGIN
                  THEN <<ahora + TIEMPO_BLOQUEO>>
                  ELSE estado.bloqueado_hasta,
              ultimo_intento |-> <<ahora>>]

\* _registrar_intento_login: the entry it leaves
registrar_intento_login(estado, exitoso, ahora) ==
    IF exitoso
    THEN [intentos |-> 0, bloqueado_hasta |-> <<>>, ultimo_intento |-> <<ahora>>]
    ELSE LET n == estado.intentos + 1
         IN  [intentos |-> n,
              bloqueado_hasta |->
                  IF n >= MAX_INTENTOS_LOGIN
                  THEN <<ahora + TIEMPO_BLOQUEO>>
                  ELSE estado.bloqueado_hasta,
              ultimo_intento |-> <<ahora>>]

\* Autenticacion.login with a message of its own for a username without row
login_revela(tabla, username, password) ==
    LET password_hash == obtener_password_hash(tabla, username)
    IN  IF password_hash = <<>>
        THEN [exito |-> FALSE, msg |-> "Usuario no encontrado"]
        ELSE IF verificar_password(password_hash[1], password)
        THEN [exito |-> TRUE, msg |-> MSG_LOGIN_OK]
        ELSE [exito |-> FALSE, msg |-> MSG_CREDENCIALES]

\* Autenticacion.login on the rows read: (exito, msg)
login(tabla, username, password) ==
    LET password_hash == obtener_password_hash(tabla, username)
    IN  IF password_hash = <<>>
        THEN [exito |-> FALSE, msg |-> MSG_CREDENCIALES]
        ELSE IF verificar_password(password_hash[1], password)
        THEN [exito |-> TRUE, msg |-> MSG_LOGIN_OK]
        ELSE [exito |-> FALSE, msg |-> MSG_CREDENCIALES]

\* the answer of _procesar_login with the message of login as it is
respuesta_login_sin_sufijo(exitoso, mensaje, estado) ==
    IF exitoso THEN enviar_ok(mensaje, 0) ELSE enviar_error(mensaje, 0)

\* the answer _procesar_login writes once the attempt is recorded
respuesta_login(exitoso, mensaje, estado) ==
    IF exitoso THEN enviar_ok(mensaje, 0)
    ELSE LET restantes == MAX_INTENTOS_LOGIN - estado.intentos
         IN  IF restantes > 0
             THEN enviar_error(mensaje \o SUF_RESTANTES, restantes)
             ELSE enviar_error(mensaje \o SUF_BLOQUEADO_POR, TIEMPO_BLOQUEO)

\* _procesar_login from its first line to its last, with no other worker
\* in between: the entry it leaves and the answer it writes
procesar_login(tabla, estado, username, password, ahora) ==
    IF FaltaTexto(username) \/ FaltaCaracteres(password)
    THEN [estado |-> estado, resp |-> enviar_error(MSG_FALTA_LOGIN, 0)]
    ELSE LET g == verificar_rate_limit_login(estado, ahora)
             r == login(tabla, username[1], password[1])
             e == registrar_intento_login(g.estado, r.exito, ahora)
         IN  IF ~g.puede
             THEN [estado |-> g.estado,
                   resp |-> enviar_error(MSG_BLOQUEADO, g.minutos)]
             ELSE [estado |-> e, resp |-> respuesta_login(r.exito, r.msg, e)]

(***************************************************************************)
(* History of the validation, per nonce value: how many MAC-valid          *)
(* requests carrying it finished verificar_mensaje_completo (validos), how *)
(* many of them it accepted (aceptados), and how many requests carrying it *)
(* failed the MAC check (invalidos).                                       *)
(***************************************************************************)
CuentaInicial == [validos |-> 0, aceptados |-> 0, invalidos |-> 0]

Cta(n) == IF n \in DOMAIN cuenta THEN cuenta[n] ELSE CuentaInicial

Anotar(n, c) == [x \in DOMAIN cuenta \cup {n} |-> IF x = n THEN c ELSE cuenta[x]]

(***************************************************************************)
(* The state after ServidorBancario.__init__, on a database that holds the *)
(* given users and no nonce and no transaction.                            *)
(***************************************************************************)
InitCon(tabla_usuarios) ==
    /\ now = 0
    /\ usuarios = tabla_usuarios
    /\ nonces = {}
    /\ transacciones = <<>>
    /\ intentos_login = <<>>
    /\ contador_conexiones = 0
    /\ pc = [w \in Workers |-> "libre"]
    /\ num_conn = [w \in Workers |-> 0]
    /\ datos = [w \in Workers |-> SinDatos]
    /\ resp = [w \in Workers |-> SinRespuesta]
    /\ mensajes = [w \in Workers |-> SinMensaje]
    /\ exito = [w \in Workers |-> FALSE]
    /\ msg = [w \in Workers |-> ""]
    /\ admitido = [w \in Workers |-> ""]
    /\ cuenta = <<>>
    /\ racha = [u \in Usernames |-> 0]
    /\ primero = [u \in Usernames |-> <<>>]
    /\ barridos = <<>>
    /\ tx_ok = {}
    /\ tx_origen = <<>>
    /\ repetido = [w \in Workers |-> FALSE]
    /\ activo = TRUE
    /\ socket_servidor = "abierto"
    /\ bucle = "accept"

\* an empty database
Init == InitCon({})

\* a database in which alice registered with PASS_OK in an earlier run
InitLogin ==
    InitCon({[username |-> "alice",
              password_hash |-> hashear_password(PASS_OK, "salt1")]})

(***************************************************************************)
(* What arrives on the connections.                                        *)
(***************************************************************************)
TX_ALICE == Mensaje(TRANSACCION, Transferencia("alice", "ES1234", "ES5678", Numero(100)))
TX_BOB == Mensaje(TRANSACCION, Transferencia("bob", "ES1234", "ES5678", Numero(100)))
REG_ALICE == Mensaje(REGISTRO, Credenciales("alice", PASS_OK))
LOGIN_ALICE_OK == Mensaje(LOGIN, Credenciales("alice", PASS_OK))
LOGIN_ALICE_MAL == Mensaje(LOGIN, Credenciales("alice", PASS_MAL))

\* envelopes a client holding the shared key packs
SobresLegitimos ==
    {empaquetar(TX_ALICE, clave_compartida, NonceCliente(0)),
     empaquetar(TX_ALICE, clave_compartida, NonceBlanco)}

\* what an attacker who saw them, and lacks the key, can send with the tag
\* kept: the payload replaced, and the boundary between payload and nonce
\* moved to the right (the first byte of the nonce appended to the payload)
\* or to the left (the last byte of the payload put before the nonce)
SobreAlterado ==
    Paquete(json_dumps(TX_BOB),
            calcular_mac(clave_compartida, json_dumps(TX_ALICE), NonceCliente(0)),
            NonceCliente(0))

SobreCorridoDerecha ==
    Paquete(json_dumps(TX_ALICE) \o <<NonceBlanco[1]>>,
            calcular_mac(clave_compartida, json_dumps(TX_ALICE), NonceBlanco),
            Tail(NonceBlanco))

SobreCorridoIzquierda ==
    Paquete(<<json_dumps(TX_ALICE)[1]>>,
            calcular_mac(clave_compartida, json_dumps(TX_ALICE), NonceCliente(0)),
            <<json_dumps(TX_ALICE)[2]>> \o NonceCliente(0))

\* requests of the other kinds, each with a nonce of its own
SobresServicio ==
    {empaquetar(REG_ALICE, clave_compartida, NonceCliente(2)),
     empaquetar(LOGIN_ALICE_MAL, clave_compartida, NonceCliente(3))}

Entradas ==
    {empaquetar(TX_ALICE, clave_compartida, NonceCliente(0)),
     SobreAlterado, SobreCorridoDerecha, SobreCorridoIzquierda, Basura, SinDatos}
    \cup SobresServicio

\* bytes that are no envelope: JSON that is no object, and objects that lack
\* one of the three fields
JsonLista == BytesCrudos("[1, 2, 3]")

SobreSinMensaje ==
    [crudo |-> "json",
     paquete |-> [mac |-> b64encode(calcular_mac(clave_compartida, json_dumps(TX_ALICE), NonceCliente(7))),
                  nonce |-> b64encode(NonceCliente(7))]]

SobreSinMac ==
    [crudo |-> "json",
     paquete |-> [mensaje |-> b64encode(json_dumps(TX_ALICE)),
                  nonce |-> b64encode(NonceCliente(7))]]

SobreSinNonce ==
    [crudo |-> "json",
     paquete |-> [mensaje |-> b64encode(json_dumps(TX_ALICE)),
                  mac |-> b64encode(calcular_mac(clave_compartida, json_dumps(TX_ALICE), NonceCliente(7)))]]

Malformados == {Basura, JsonLista, SobreSinMensaje, SobreSinMac, SobreSinNonce}

\* requests packed by a client whose tipo the server has no handler for
SobresTipo ==
    {empaquetar(Mensaje(LOGOUT, Credenciales("alice", PASS_OK)), clave_compartida, NonceCliente(4)),
     empaquetar(Mensaje(RESPUESTA, Credenciales("alice", PASS_OK)), clave_compartida, NonceCliente(5)),
     empaquetar(Mensaje("saldo", Credenciales("alice", PASS_OK)), clave_compartida, NonceCliente(6))}

EntradasSobres ==
    {empaquetar(TX_ALICE, clave_compartida, NonceCliente(0))}
    \cup SobresServicio \cup Malformados \cup SobresTipo

\* requests of every tipo packed by clients, under the shared key or under
\* a key of their own, with the nonce generar_nonce gave them
Claves == {clave_compartida, "OTRA_CLAVE"}
NoncesCodec == {NonceCliente(0), NonceCliente(1), NonceBlanco}

MensajesCodec ==
    {TX_ALICE, TX_BOB, REG_ALICE, LOGIN_ALICE_OK, LOGIN_ALICE_MAL,
     Mensaje(LOGOUT, Credenciales("bob", PASS_DEBIL)),
     Mensaje(TRANSACCION, Transferencia("alice", "ES1234", "ES5678", Cadena(100))),
     Mensaje(TRANSACCION, [username |-> "alice", cuenta_origen |-> "ES1234"])}

EntradasCodec ==
    {empaquetar(m, k, n) : m \in MensajesCodec, k \in Claves, n \in NoncesCodec}

\* everything that arrives on a connection
Envios == Entradas \cup EntradasSobres \cup EntradasCodec

\* the decoded request of worker w
Sobre(w) == desempaquetar(datos[w])

\* _aceptar_conexiones, the test of 'while self.activo' that every pass of
\* the loop ends with: where the main thread goes
BucleTras == IF activo THEN "accept" ELSE "fin"

(***************************************************************************)
(* _aceptar_conexiones: accept a connection and start its thread.          *)
(***************************************************************************)
Aceptar(w, max) ==
    /\ bucle = "accept"
    /\ socket_servidor = "abierto"
    /\ pc[w] = "libre"
    /\ contador_conexiones < max
    /\ bucle' = BucleTras
    /\ contador_conexiones' = contador_conexiones + 1
    /\ num_conn' = [num_conn EXCEPT ![w] = contador_conexiones + 1]
    /\ pc' = [pc EXCEPT ![w] = "recv"]
    /\ UNCHANGED <<activo, socket_servidor, msg, now, usuarios, nonces, transacciones, intentos_login, datos,
                   resp, exito, cuenta, racha, primero, barridos, tx_ok, tx_origen, repetido, admitido, mensajes>>

(***************************************************************************)
(* _manejar_cliente up to the MAC check of verificar_mensaje_completo:     *)
(* conn.recv, Mensaje.desempaquetar, verificar_mac.                        *)
(***************************************************************************)
Recibir(w, d) ==
    /\ pc[w] = "recv"
    /\ datos' = [datos EXCEPT ![w] = d]
    /\ repetido' = [repetido EXCEPT ![w] = d \in tx_ok]
    /\ LET s == desempaquetar(d)
       IN  IF d = SinDatos
           THEN /\ pc' = [pc EXCEPT ![w] = "cerrar"]
                /\ UNCHANGED <<resp, cuenta>>
           ELSE IF ~s.ok
           THEN /\ resp' = [resp EXCEPT ![w] = enviar_error(MSG_MALFORMADO, 0)]
                /\ pc' = [pc EXCEPT ![w] = "cerrar"]
                /\ UNCHANGED cuenta
           ELSE IF ~verificar_mac(clave_compartida, s.mensaje, s.nonce, s.mac)
           THEN /\ resp' = [resp EXCEPT ![w] = enviar_error(MSG_MAC, 0)]
                /\ pc' = [pc EXCEPT ![w] = "cerrar"]
                /\ cuenta' = Anotar(s.nonce,
                       [Cta(s.nonce) EXCEPT !.invalidos = @ + 1])
           ELSE /\ pc' = [pc EXCEPT ![w] = "val_select"]
                /\ UNCHANGED <<resp, cuenta>>
    /\ UNCHANGED <<activo, socket_servidor, bucle, msg, now, usuarios, nonces, transacciones, intentos_login,
                   contador_conexiones, num_conn, exito, racha, primero, barridos, tx_ok, tx_origen, admitido, mensajes>>

(***************************************************************************)
(* validar_nonce, the SELECT: a row with this valor means a replay, and    *)
(* verificar_mensaje_completo raises MensajeInvalido.                      *)
(***************************************************************************)
ValidarNonceSelect(w) ==
    /\ pc[w] = "val_select"
    /\ LET n == Sobre(w).nonce
       IN  IF nonce_registrado(nonces, n)
           THEN /\ resp' = [resp EXCEPT ![w] = enviar_error(MSG_NONCE, 0)]
                /\ pc' = [pc EXCEPT ![w] = "cerrar"]
                /\ admitido' = [admitido EXCEPT ![w] = "False"]
                /\ cuenta' = Anotar(n, [Cta(n) EXCEPT !.validos = @ + 1])
           ELSE /\ pc' = [pc EXCEPT ![w] = "val_insert"]
                /\ UNCHANGED <<resp, cuenta, admitido>>
    /\ UNCHANGED <<activo, socket_servidor, bucle, msg, now, usuarios, nonces, transacciones, intentos_login,
                   contador_conexiones, num_conn, datos, exito, racha, primero, barridos, tx_ok,
                   tx_origen, repetido, mensajes>>

(***************************************************************************)
(* What _manejar_cliente does with the result m of Mensaje.desde_json up   *)
(* to the first access of the handler to shared state: the dispatch on     *)
(* tipo and the checks of the handler on its fields.  When desde_json      *)
(* raised, the outer handler logs and nothing is answered.                 *)
(***************************************************************************)
\* the dispatch answering nothing to a tipo without handler
Despachar_mudo(m) ==
    LET username == get(m.datos, "username")
        password == get(m.datos, "password")
        a(donde, respuesta) == [pc |-> donde, resp |-> respuesta, mensaje |-> m]
    IN  IF ~m.ok THEN a("cerrar", SinRespuesta)
        ELSE IF m.tipo = REGISTRO
        THEN IF FaltaTexto(username) \/ FaltaCaracteres(password)
             THEN a("cerrar", enviar_error(MSG_FALTA_REGISTRO, 0))
             ELSE IF ~validar_password(password[1]).ok
             THEN a("cerrar", enviar_error(validar_password(password[1]).msg, 0))
             ELSE a("reg_existe", SinRespuesta)
        ELSE IF m.tipo = LOGIN
        THEN IF FaltaTexto(username) \/ FaltaCaracteres(password)
             THEN a("cerrar", enviar_error(MSG_FALTA_LOGIN, 0))
             ELSE a("login_gate", SinRespuesta)
        ELSE IF m.tipo = TRANSACCION
        THEN IF \/ FaltaTexto(username)
                \/ FaltaTexto(get(m.datos, "cuenta_origen"))
                \/ FaltaTexto(get(m.datos, "cuenta_destino"))
                \/ FaltaNumero(get(m.datos, "cantidad"))
             THEN a("cerrar", enviar_error(MSG_FALTA_TX, 0))
             ELSE a("tx_insert", SinRespuesta)
        ELSE a("cerrar", SinRespuesta)

\* the dispatch taking an empty password of a login for a password
Despachar_vacia(m) ==
    LET username == get(m.datos, "username")
        password == get(m.datos, "password")
        a(donde, respuesta) == [pc |-> donde, resp |-> respuesta, mensaje |-> m]
    IN  IF ~m.ok THEN a("cerrar", SinRespuesta)
        ELSE IF m.tipo = REGISTRO
        THEN IF FaltaTexto(username) \/ FaltaCaracteres(password)
             THEN a("cerrar", enviar_error(MSG_FALTA_REGISTRO, 0))
             ELSE IF ~validar_password(password[1]).ok
             THEN a("cerrar", enviar_error(validar_password(password[1]).msg, 0))
             ELSE a("reg_existe", SinRespuesta)
        ELSE IF m.tipo = LOGIN
        THEN IF FaltaTexto(username) \/ password = <<>>
             THEN a("cerrar", enviar_error(MSG_FALTA_LOGIN, 0))
             ELSE a("login_gate", SinRespuesta)
        ELSE IF m.tipo = TRANSACCION
        THEN IF \/ FaltaTexto(username)
                \/ FaltaTexto(get(m.datos, "cuenta_origen"))
                \/ FaltaTexto(get(m.datos, "cuenta_destino"))
                \/ FaltaNumero(get(m.datos, "cantidad"))
             THEN a("cerrar", enviar_error(MSG_FALTA_TX, 0))
             ELSE a("tx_insert", SinRespuesta)
        ELSE a("cerrar", enviar_error(MSG_TIPO, 0))

Despachar(m) ==
    LET username == get(m.datos, "username")
        password == get(m.datos, "password")
        a(donde, respuesta) == [pc |-> donde, resp |-> respuesta, mensaje |-> m]
    IN  IF ~m.ok THEN a("cerrar", SinRespuesta)
        ELSE IF m.tipo = REGISTRO
        THEN IF FaltaTexto(username) \/ FaltaCaracteres(password)
             THEN a("cerrar", enviar_error(MSG_FALTA_REGISTRO, 0))
             ELSE IF ~validar_password(password[1]).ok
             THEN a("cerrar", enviar_error(validar_password(password[1]).msg, 0))
             ELSE a("reg_existe", SinRespuesta)
        ELSE IF m.tipo = LOGIN
        THEN IF FaltaTexto(username) \/ FaltaCaracteres(password)
             THEN a("cerrar", enviar_error(MSG_FALTA_LOGIN, 0))
             ELSE a("login_gate", SinRespuesta)
        ELSE IF m.tipo = TRANSACCION
        THEN IF \/ FaltaTexto(username)
                \/ FaltaTexto(get(m.datos, "cuenta_origen"))
                \/ FaltaTexto(get(m.datos, "cuenta_destino"))
                \/ FaltaNumero(get(m.datos, "cantidad"))
             THEN a("cerrar", enviar_error(MSG_FALTA_TX, 0))
             ELSE a("tx_insert", SinRespuesta)
        ELSE a("cerrar", enviar_error(MSG_TIPO, 0))

(***************************************************************************)
(* Despachar over what arrives on the connections: the result of           *)
(* Mensaje.desde_json on the payload of each envelope, dispatched.         *)
(***************************************************************************)
Despachos ==
    [d \in Envios |-> Despachar(desde_json(desempaquetar(d).mensaje))]

\* validar_nonce recording the nonce only of a request that goes on to a
\* handler
ValidarNonceInsert_tardio(w) ==
    /\ pc[w] = "val_insert"
    /\ \E n \in {Sobre(w).nonce} :
       \E d \in {Despachos[datos[w]]} :
           IF ~UnicoValor(nonces, n)
           THEN /\ pc' = [pc EXCEPT ![w] = "cerrar"]
                /\ cuenta' = Anotar(n, [Cta(n) EXCEPT !.validos = @ + 1])
                /\ admitido' = [admitido EXCEPT ![w] = "IntegrityError"]
                /\ UNCHANGED <<nonces, resp, mensajes>>
           ELSE /\ nonces' = IF d.pc = "cerrar" THEN nonces
                             ELSE nonces \cup {fila_nonce(n, now, DURACION_MINUTOS)}
                /\ cuenta' = Anotar(n, [Cta(n) EXCEPT !.validos = @ + 1,
                                                      !.aceptados = @ + 1])
                /\ admitido' = [admitido EXCEPT ![w] = "True"]
                /\ pc' = [pc EXCEPT ![w] = d.pc]
                /\ resp' = [resp EXCEPT ![w] = d.resp]
                /\ mensajes' = [mensajes EXCEPT ![w] = d.mensaje]
    /\ UNCHANGED <<activo, socket_servidor, bucle, msg, now, usuarios, transacciones, intentos_login,
                   contador_conexiones, num_conn, datos, exito, racha, primero, barridos, tx_ok,
                   tx_origen, repetido>>

\* the INSERT whose IntegrityError reaches the accept loop and ends it
ValidarNonceInsert_propaga(w) ==
    /\ pc[w] = "val_insert"
    /\ \E n \in {Sobre(w).nonce} :
       \E d \in {Despachos[datos[w]]} :
           IF ~UnicoValor(nonces, n)
           THEN /\ pc' = [pc EXCEPT ![w] = "cerrar"]
                /\ cuenta' = Anotar(n, [Cta(n) EXCEPT !.validos = @ + 1])
                /\ admitido' = [admitido EXCEPT ![w] = "IntegrityError"]
                /\ bucle' = "fin"
                /\ UNCHANGED <<nonces, resp, mensajes>>
           ELSE /\ nonces' = nonces \cup {fila_nonce(n, now, DURACION_MINUTOS)}
                /\ cuenta' = Anotar(n, [Cta(n) EXCEPT !.validos = @ + 1,
                                                      !.aceptados = @ + 1])
                /\ admitido' = [admitido EXCEPT ![w] = "True"]
                /\ pc' = [pc EXCEPT ![w] = d.pc]
                /\ resp' = [resp EXCEPT ![w] = d.resp]
                /\ mensajes' = [mensajes EXCEPT ![w] = d.mensaje]
                /\ UNCHANGED bucle
    /\ UNCHANGED <<activo, socket_servidor, msg, now, usuarios, transacciones, intentos_login,
                   contador_conexiones, num_conn, datos, exito, racha, primero, barridos, tx_ok,
                   tx_origen, repetido>>

(***************************************************************************)
(* validar_nonce, the INSERT and the commit.  A row with this valor makes  *)
(* the INSERT raise sqlite3.IntegrityError, which _manejar_cliente catches *)
(* in its outer handler: it logs, answers nothing and closes.  Otherwise   *)
(* the request is validated and dispatched.                                *)
(***************************************************************************)
ValidarNonceInsert(w) ==
    /\ pc[w] = "val_insert"
    /\ \E n \in {Sobre(w).nonce} :
       \E d \in {Despachos[datos[w]]} :
           IF ~UnicoValor(nonces, n)
           THEN /\ pc' = [pc EXCEPT ![w] = "cerrar"]
                /\ cuenta' = Anotar(n, [Cta(n) EXCEPT !.validos = @ + 1])
                /\ admitido' = [admitido EXCEPT ![w] = "IntegrityError"]
                /\ UNCHANGED <<nonces, resp, mensajes>>
           ELSE /\ nonces' = nonces \cup {fila_nonce(n, now, DURACION_MINUTOS)}
                /\ cuenta' = Anotar(n, [Cta(n) EXCEPT !.validos = @ + 1,
                                                      !.aceptados = @ + 1])
                /\ admitido' = [admitido EXCEPT ![w] = "True"]
                /\ pc' = [pc EXCEPT ![w] = d.pc]
                /\ resp' = [resp EXCEPT ![w] = d.resp]
                /\ mensajes' = [mensajes EXCEPT ![w] = d.mensaje]
    /\ UNCHANGED <<activo, socket_servidor, bucle, msg, now, usuarios, transacciones, intentos_login,
                   contador_conexiones, num_conn, datos, exito, racha, primero, barridos, tx_ok,
                   tx_origen, repetido>>

(***************************************************************************)
(* _procesar_registro: Autenticacion.registrar, the SELECT of              *)
(* usuario_existe.                                                         *)
(***************************************************************************)
RegistrarExiste(w) ==
    /\ pc[w] = "reg_existe"
    /\ IF usuario_existe(usuarios, mensajes[w].datos.username)
       THEN /\ resp' = [resp EXCEPT ![w] = enviar_error(MSG_EXISTE, 0)]
            /\ pc' = [pc EXCEPT ![w] = "cerrar"]
       ELSE /\ pc' = [pc EXCEPT ![w] = "reg_crear"]
            /\ UNCHANGED resp
    /\ UNCHANGED <<activo, socket_servidor, bucle, msg, now, usuarios, nonces, transacciones, intentos_login,
                   contador_conexiones, num_conn, datos, exito, cuenta, racha, primero, barridos,
                   tx_ok, tx_origen, repetido, admitido, mensajes>>

(***************************************************************************)
(* Autenticacion.registrar: hashear_password with a fresh salt, then the   *)
(* INSERT of crear_usuario, which gives False on sqlite3.IntegrityError.   *)
(***************************************************************************)
RegistrarCrear(w, salt) ==
    /\ pc[w] = "reg_crear"
    /\ LET username == mensajes[w].datos.username
           password_hash == hashear_password(mensajes[w].datos.password, salt)
       IN  IF UnicoUsername(usuarios, username)
           THEN /\ usuarios' = usuarios \cup
                       {[username |-> username, password_hash |-> password_hash]}
                /\ resp' = [resp EXCEPT ![w] = enviar_ok(MSG_REGISTRADO, 0)]
           ELSE /\ resp' = [resp EXCEPT ![w] = enviar_error(MSG_ERROR_CREAR, 0)]
                /\ UNCHANGED usuarios
    /\ pc' = [pc EXCEPT ![w] = "cerrar"]
    /\ UNCHANGED <<activo, socket_servidor, bucle, msg, now, nonces, transacciones, intentos_login,
                   contador_conexiones, num_conn, datos, exito, cuenta, racha, primero, barridos,
                   tx_ok, tx_origen, repetido, admitido, mensajes>>

\* history: when the first failure of each count was, r being the counts
\* after a step taken at ahora
primero_tras(r, ahora) ==
    [u \in Usernames |->
        IF r[u] = 0 THEN <<>>
        ELSE IF racha[u] = 0 THEN <<ahora>>
        ELSE primero[u]]

(***************************************************************************)
(* _procesar_login (the second definition in the class, which is the one   *)
(* in force): the gate _verificar_rate_limit_login.                        *)
(***************************************************************************)
LoginVerificarLimite(w) ==
    /\ pc[w] = "login_gate"
    /\ LET username == mensajes[w].datos.username
           antes == Estado(intentos_login, username)
           r == verificar_rate_limit_login(antes, now)
       IN  /\ intentos_login' = Poner(intentos_login, username, r.estado)
           /\ racha' = IF r.estado.intentos = 0 /\ antes.intentos # 0
                       THEN [racha EXCEPT ![username] = 0]
                       ELSE racha
           /\ primero' = primero_tras(racha', now)
           /\ IF r.puede
              THEN /\ pc' = [pc EXCEPT ![w] = "login_auth"]
                   /\ UNCHANGED resp
              ELSE /\ resp' = [resp EXCEPT ![w] =
                                   enviar_error(MSG_BLOQUEADO, r.minutos)]
                   /\ pc' = [pc EXCEPT ![w] = "cerrar"]
    /\ UNCHANGED <<barridos, activo, socket_servidor, bucle, msg, now, usuarios, nonces, transacciones, contador_conexiones,
                   num_conn, datos, exito, cuenta, tx_ok, tx_origen, repetido, admitido, mensajes>>

(***************************************************************************)
(* _procesar_login: Autenticacion.login, which reads the stored hash and   *)
(* verifies the password.                                                  *)
(***************************************************************************)
LoginAutenticar(w) ==
    /\ pc[w] = "login_auth"
    /\ LET r == login(usuarios, mensajes[w].datos.username,
                      mensajes[w].datos.password)
       IN  /\ exito' = [exito EXCEPT ![w] = r.exito]
           /\ msg' = [msg EXCEPT ![w] = r.msg]
    /\ pc' = [pc EXCEPT ![w] = "login_reg"]
    /\ UNCHANGED <<activo, socket_servidor, bucle, now, usuarios, nonces, transacciones, intentos_login,
                   contador_conexiones, num_conn, datos, resp, cuenta, racha, primero, barridos,
                   tx_ok, tx_origen, repetido, admitido, mensajes>>

(***************************************************************************)
(* _procesar_login: _registrar_intento_login and the answer.               *)
(***************************************************************************)
LoginRegistrarIntento(w) ==
    /\ pc[w] = "login_reg"
    /\ LET username == mensajes[w].datos.username
           estado == registrar_intento_login(Estado(intentos_login, username),
                                             exito[w], now)
       IN  /\ intentos_login' = Poner(intentos_login, username, estado)
           /\ resp' = [resp EXCEPT ![w] = respuesta_login(exito[w], msg[w], estado)]
           /\ racha' = [racha EXCEPT ![username] = IF exito[w] THEN 0 ELSE @ + 1]
           /\ primero' = primero_tras(racha', now)
    /\ pc' = [pc EXCEPT ![w] = "cerrar"]
    /\ UNCHANGED <<barridos, activo, socket_servidor, bucle, msg, now, usuarios, nonces, transacciones, contador_conexiones,
                   num_conn, datos, exito, cuenta, tx_ok, tx_origen, repetido, admitido, mensajes>>

\* _procesar_transaccion refusing the transfer of a username without a row
\* in usuarios or with a lock
ProcesarTransferencia_autenticada(w) ==
    /\ pc[w] = "tx_insert"
    /\ LET d == mensajes[w].datos
           fila == fila_transaccion(transacciones, d.username, d.cuenta_origen,
                                    d.cuenta_destino, d.cantidad, TRUE)
       IN  IF usuario_existe(usuarios, d.username)
              /\ Estado(intentos_login, d.username).bloqueado_hasta = <<>>
           THEN /\ transacciones' = Append(transacciones, fila)
                /\ tx_origen' = Append(tx_origen, datos[w])
                /\ resp' = [resp EXCEPT ![w] = enviar_ok(MSG_TX_OK, fila.id)]
                /\ tx_ok' = tx_ok \cup {datos[w]}
           ELSE /\ resp' = [resp EXCEPT ![w] = enviar_error(MSG_TX_ERROR, 0)]
                /\ UNCHANGED <<transacciones, tx_origen, tx_ok>>
    /\ pc' = [pc EXCEPT ![w] = "cerrar"]
    /\ UNCHANGED <<activo, socket_servidor, bucle, msg, now, usuarios, nonces, intentos_login, contador_conexiones,
                   num_conn, datos, exito, cuenta, racha, primero, barridos, repetido, admitido, mensajes>>

(***************************************************************************)
(* _procesar_transaccion: GestorTransacciones.procesar_transferencia.  The *)
(* row is committed by registrar_transaccion before the log line is        *)
(* formatted; when the formatting raises, the answer is an error.          *)
(***************************************************************************)
ProcesarTransferencia(w) ==
    /\ pc[w] = "tx_insert"
    /\ LET d == mensajes[w].datos
           fila == fila_transaccion(transacciones, d.username, d.cuenta_origen,
                                    d.cuenta_destino, d.cantidad, TRUE)
       IN  /\ transacciones' = Append(transacciones, fila)
           /\ tx_origen' = Append(tx_origen, datos[w])
           /\ IF formatea_2f(d.cantidad)
              THEN /\ resp' = [resp EXCEPT ![w] = enviar_ok(MSG_TX_OK, fila.id)]
                   /\ tx_ok' = tx_ok \cup {datos[w]}
              ELSE /\ resp' = [resp EXCEPT ![w] = enviar_error(MSG_TX_ERROR, 0)]
                   /\ UNCHANGED tx_ok
    /\ pc' = [pc EXCEPT ![w] = "cerrar"]
    /\ UNCHANGED <<activo, socket_servidor, bucle, msg, now, usuarios, nonces, intentos_login, contador_conexiones,
                   num_conn, datos, exito, cuenta, racha, primero, barridos, repetido, admitido, mensajes>>

\* _manejar_cliente going back to conn.recv where it closes
CerrarYReleer(w) ==
    /\ pc[w] = "cerrar"
    /\ pc' = [pc EXCEPT ![w] = "recv"]
    /\ UNCHANGED <<activo, socket_servidor, bucle, msg, now, usuarios, nonces, transacciones, intentos_login,
                   contador_conexiones, num_conn, datos, resp, mensajes, exito,
                   admitido, cuenta, racha, primero, barridos, tx_ok, tx_origen, repetido>>

(***************************************************************************)
(* _manejar_cliente, the finally clause: conn.close(); the thread ends.    *)
(***************************************************************************)
Cerrar(w) ==
    /\ pc[w] = "cerrar"
    /\ pc' = [pc EXCEPT ![w] = "libre"]
    /\ num_conn' = [num_conn EXCEPT ![w] = 0]
    /\ datos' = [datos EXCEPT ![w] = SinDatos]
    /\ resp' = [resp EXCEPT ![w] = SinRespuesta]
    /\ mensajes' = [mensajes EXCEPT ![w] = SinMensaje]
    /\ exito' = [exito EXCEPT ![w] = FALSE]
    /\ msg' = [msg EXCEPT ![w] = ""]
    /\ admitido' = [admitido EXCEPT ![w] = ""]
    /\ repetido' = [repetido EXCEPT ![w] = FALSE]
    /\ UNCHANGED <<activo, socket_servidor, bucle, now, usuarios, nonces, transacciones, intentos_login,
                   contador_conexiones, cuenta, racha, primero, barridos, tx_ok, tx_origen>>

(***************************************************************************)
(* The clock: paso minutes pass.                                           *)
(***************************************************************************)
Tick(paso) ==
    /\ now + paso <= MaxTime
    /\ now' = now + paso
    /\ UNCHANGED <<activo, socket_servidor, bucle, msg, usuarios, nonces, transacciones, intentos_login,
                   contador_conexiones, pc, num_conn, datos, resp, exito,
                   cuenta, racha, primero, barridos, tx_ok, tx_origen, repetido, admitido, mensajes>>

(***************************************************************************)
(* limpiar_nonces_expirados, run on a connection of its own to the         *)
(* database at any moment: one DELETE, committed.                          *)
(***************************************************************************)
LimpiarNoncesExpirados(max) ==
    /\ Len(barridos) < max
    /\ LET r == limpiar_nonces_expirados(nonces, now)
       IN  /\ nonces' = r.tabla
           /\ barridos' = Append(barridos, [ahora |-> now, eliminados |-> r.eliminados])
    /\ UNCHANGED <<activo, socket_servidor, bucle, msg, now, usuarios,
                   transacciones, intentos_login, contador_conexiones, pc,
                   num_conn, datos, resp, mensajes, exito, admitido, cuenta,
                   racha, primero, tx_ok, tx_origen, repetido>>

(***************************************************************************)
(* The server: connections of any content, handled by concurrent workers.  *)
(***************************************************************************)
Next ==
    \/ \E w \in Workers : Aceptar(w, MaxConexiones)
    \/ \E w \in Workers : \E d \in Entradas : Recibir(w, d)
    \/ \E w \in Workers : ValidarNonceSelect(w)
    \/ \E w \in Workers : ValidarNonceInsert(w)
    \/ \E w \in Workers : RegistrarExiste(w)
    \/ \E w \in Workers : \E salt \in Sales : RegistrarCrear(w, salt)
    \/ \E w \in Workers : LoginVerificarLimite(w)
    \/ \E w \in Workers : LoginAutenticar(w)
    \/ \E w \in Workers : LoginRegistrarIntento(w)
    \/ \E w \in Workers : ProcesarTransferencia(w)
    \/ \E w \in Workers : Cerrar(w)

Spec == Init /\ [][Next]_vars

(***************************************************************************)
(* The same server with two threads, each started thread being scheduled   *)
(* again and again until it returns: threading.Thread(...).start() hands   *)
(* _manejar_cliente to the scheduler, and none of its steps after the read *)
(* waits for another thread or for the client.                             *)
(***************************************************************************)
MaxConexionesJusta == 2
Hilos == {1, 2}

\* the steps of the thread of worker w once it has read
Hilo(w) ==
    \/ ValidarNonceSelect(w)
    \/ ValidarNonceInsert(w)
    \/ RegistrarExiste(w)
    \/ \E salt \in Sales : RegistrarCrear(w, salt)
    \/ LoginVerificarLimite(w)
    \/ LoginAutenticar(w)
    \/ LoginRegistrarIntento(w)
    \/ ProcesarTransferencia(w)
    \/ Cerrar(w)

NextJusta ==
    \/ \E w \in Hilos : Aceptar(w, MaxConexionesJusta)
    \/ \E w \in Hilos : \E d \in Entradas : Recibir(w, d)
    \/ \E w \in Hilos : Hilo(w)

SpecJusta == Init /\ [][NextJusta]_vars /\ \A w \in Hilos : WF_vars(Hilo(w))

(***************************************************************************)
(* The server with two threads under envelopes of every shape: requests    *)
(* packed by clients, bytes that are no envelope, and requests of a tipo   *)
(* without handler.                                                        *)
(***************************************************************************)
MaxConexionesSobres == 2

NextSobres ==
    \/ \E w \in Hilos : Aceptar(w, MaxConexionesSobres)
    \/ \E w \in Hilos : \E d \in EntradasSobres : Recibir(w, d)
    \/ \E w \in Hilos : Hilo(w)

SpecSobres == Init /\ [][NextSobres]_vars

(***************************************************************************)
(* The codec from end to end: a client packs a request with                *)
(* Mensaje.empaquetar and sends it; the server reads it, unpacks it and    *)
(* handles it, one connection at a time.                                   *)
(***************************************************************************)
MaxConexionesCodec == 1

NextCodec ==
    \/ Aceptar(1, MaxConexionesCodec)
    \/ \E d \in EntradasCodec : Recibir(1, d)
    \/ Hilo(1)

SpecCodec == Init /\ [][NextCodec]_vars

(***************************************************************************)
(* The server handling one connection at a time while time passes in      *)
(* steps of the lifetime of a nonce row and limpiar_nonces_expirados is    *)
(* run at any moment, also in the middle of a request.                     *)
(***************************************************************************)
MaxConexionesLimpieza == 3
MaxBarridos == 2

EntradasLimpieza ==
    {empaquetar(TX_ALICE, clave_compartida, NonceCliente(0))} \cup SobresServicio

NextLimpieza ==
    \/ Aceptar(1, MaxConexionesLimpieza)
    \/ \E d \in EntradasLimpieza : Recibir(1, d)
    \/ Hilo(1)
    \/ LimpiarNoncesExpirados(MaxBarridos)
    \/ Tick(DURACION_MINUTOS)

SpecLimpieza == Init /\ [][NextLimpieza]_vars

(***************************************************************************)
(* _aceptar_conexiones when accept() returns no connection.  With the      *)
(* timeout of one second it raises socket.timeout, and the loop goes on to *)
(* its test; on a socket that was closed it raises OSError (or times out,  *)
(* when it was closed while accept() waited), and the loop leaves when     *)
(* activo is false.                                                        *)
(***************************************************************************)
AceptarTimeout ==
    /\ bucle = "accept"
    /\ bucle' = BucleTras
    /\ UNCHANGED <<activo, socket_servidor, msg, now, usuarios, nonces,
                   transacciones, intentos_login, contador_conexiones, pc,
                   num_conn, datos, resp, mensajes, exito, admitido, cuenta,
                   racha, primero, barridos, tx_ok, tx_origen, repetido>>

AceptarOSError ==
    /\ bucle = "accept"
    /\ socket_servidor = "cerrado"
    /\ bucle' = IF ~activo THEN "fin" ELSE BucleTras
    /\ UNCHANGED <<activo, socket_servidor, msg, now, usuarios, nonces,
                   transacciones, intentos_login, contador_conexiones, pc,
                   num_conn, datos, resp, mensajes, exito, admitido, cuenta,
                   racha, primero, barridos, tx_ok, tx_origen, repetido>>

(***************************************************************************)
(* detener called from a thread other than the main one (the tests do so): *)
(* it clears the flag, and then it closes the listening socket.            *)
(***************************************************************************)
DetenerBandera ==
    /\ bucle # "exit"
    /\ activo
    /\ activo' = FALSE
    /\ UNCHANGED <<socket_servidor, bucle, msg, now, usuarios, nonces,
                   transacciones, intentos_login, contador_conexiones, pc,
                   num_conn, datos, resp, mensajes, exito, admitido, cuenta,
                   racha, primero, barridos, tx_ok, tx_origen, repetido>>

\* detener without its close
DetenerCierre_sin_cierre ==
    /\ bucle # "exit"
    /\ ~activo
    /\ socket_servidor = "abierto"
    /\ UNCHANGED vars

DetenerCierre ==
    /\ bucle # "exit"
    /\ ~activo
    /\ socket_servidor = "abierto"
    /\ socket_servidor' = "cerrado"
    /\ UNCHANGED <<activo, bucle, msg, now, usuarios, nonces,
                   transacciones, intentos_login, contador_conexiones, pc,
                   num_conn, datos, resp, mensajes, exito, admitido, cuenta,
                   racha, primero, barridos, tx_ok, tx_origen, repetido>>

(***************************************************************************)
(* _signal_handler, run by the main thread inside the loop: detener(),     *)
(* then sys.exit(0).  SystemExit is caught by no handler of the loop, the  *)
(* interpreter exits, and with it every thread, all of them being started  *)
(* with daemon=True; the sockets of the process are closed.                *)
(***************************************************************************)
Senal ==
    /\ bucle = "accept"
    /\ activo' = FALSE
    /\ socket_servidor' = "cerrado"
    /\ bucle' = "exit"
    /\ UNCHANGED <<msg, now, usuarios, nonces,
                   transacciones, intentos_login, contador_conexiones, pc,
                   num_conn, datos, resp, mensajes, exito, admitido, cuenta,
                   racha, primero, barridos, tx_ok, tx_origen, repetido>>

(***************************************************************************)
(* run_servidor.py and main(): iniciar() has returned and the script ends. *)
(***************************************************************************)
Salir ==
    /\ bucle = "fin"
    /\ bucle' = "exit"
    /\ socket_servidor' = "cerrado"
    /\ UNCHANGED <<activo, msg, now, usuarios, nonces,
                   transacciones, intentos_login, contador_conexiones, pc,
                   num_conn, datos, resp, mensajes, exito, admitido, cuenta,
                   racha, primero, barridos, tx_ok, tx_origen, repetido>>

(***************************************************************************)
(* The server from start to stop, with two threads: connections arrive and *)
(* are handled while the server is stopped by detener or by a signal.  A   *)
(* thread takes steps for as long as the process lives.                    *)
(***************************************************************************)
MaxConexionesCiclo == 2

EntradasCiclo ==
    {empaquetar(TX_ALICE, clave_compartida, NonceCliente(0)), SobreCorridoIzquierda}
    \cup SobresServicio

RecibirVivo(w, d) == bucle # "exit" /\ Recibir(w, d)

HiloVivo(w) == bucle # "exit" /\ Hilo(w)

\* the steps of the main thread that wait for no client
Bucle == AceptarTimeout \/ AceptarOSError

NextCiclo ==
    \/ \E w \in Hilos : Aceptar(w, MaxConexionesCiclo)
    \/ AceptarTimeout
    \/ AceptarOSError
    \/ DetenerBandera
    \/ DetenerCierre
    \/ Senal
    \/ Salir
    \/ \E w \in Hilos : \E d \in EntradasCiclo : RecibirVivo(w, d)
    \/ \E w \in Hilos : HiloVivo(w)

SpecCiclo == Init /\ [][NextCiclo]_vars

\* the same, the main thread and the thread that called detener being
\* scheduled again and again
SpecCicloJusta == SpecCiclo /\ WF_vars(Bucle) /\ WF_vars(DetenerCierre)

(***************************************************************************)
(* The server handling one connection at a time.                           *)
(***************************************************************************)
NextSeq ==
    \/ Aceptar(1, MaxConexiones + 1)
    \/ \E d \in Entradas : Recibir(1, d)
    \/ ValidarNonceSelect(1)
    \/ ValidarNonceInsert(1)
    \/ RegistrarExiste(1)
    \/ \E salt \in Sales : RegistrarCrear(1, salt)
    \/ LoginVerificarLimite(1)
    \/ LoginAutenticar(1)
    \/ LoginRegistrarIntento(1)
    \/ ProcesarTransferencia(1)
    \/ Cerrar(1)

SpecSeq == Init /\ [][NextSeq]_vars

(***************************************************************************)
(* A login packed by a client with a fresh nonce is accepted, read,        *)
(* validated and dispatched: the steps Aceptar, Recibir,                   *)
(* ValidarNonceSelect and ValidarNonceInsert of one worker, taken          *)
(* together.  They touch shared state in the nonces table alone, where the *)
(* row of a fresh nonce conflicts with that of no other request.           *)
(***************************************************************************)
AtenderLogin(w, m, max) ==
    LET k == contador_conexiones + 1
        d == empaquetar(m, clave_compartida, NonceCliente(k))
        s == desempaquetar(d)
        a == Despachar(desde_json(s.mensaje))
    IN  /\ bucle = "accept"
        /\ socket_servidor = "abierto"
        /\ pc[w] = "libre"
        /\ contador_conexiones < max
        /\ bucle' = BucleTras
        /\ s.ok
        /\ verificar_mac(clave_compartida, s.mensaje, s.nonce, s.mac)
        /\ ~nonce_registrado(nonces, s.nonce)
        /\ UnicoValor(nonces, s.nonce)
        /\ contador_conexiones' = k
        /\ num_conn' = [num_conn EXCEPT ![w] = k]
        /\ datos' = [datos EXCEPT ![w] = d]
        /\ repetido' = [repetido EXCEPT ![w] = d \in tx_ok]
        /\ nonces' = nonces \cup {fila_nonce(s.nonce, now, DURACION_MINUTOS)}
        /\ cuenta' = Anotar(s.nonce, [Cta(s.nonce) EXCEPT !.validos = @ + 1,
                                                          !.aceptados = @ + 1])
        /\ admitido' = [admitido EXCEPT ![w] = "True"]
        /\ pc' = [pc EXCEPT ![w] = a.pc]
        /\ resp' = [resp EXCEPT ![w] = a.resp]
        /\ mensajes' = [mensajes EXCEPT ![w] = a.mensaje]
        /\ UNCHANGED <<activo, socket_servidor, msg, now, usuarios, transacciones, intentos_login, exito,
                       racha, primero, barridos, tx_ok, tx_origen>>

(***************************************************************************)
(* The server under logins for alice, handled by two concurrent workers,   *)
(* as time passes in steps of the lockout period.                          *)
(***************************************************************************)
WorkersLogin == {1, 2}

NextLogin ==
    \/ \E w \in WorkersLogin : \E m \in {LOGIN_ALICE_OK, LOGIN_ALICE_MAL} :
           AtenderLogin(w, m, MaxConexionesLogin)
    \/ \E w \in WorkersLogin : LoginVerificarLimite(w)
    \/ \E w \in WorkersLogin : LoginAutenticar(w)
    \/ \E w \in WorkersLogin : LoginRegistrarIntento(w)
    \/ \E w \in WorkersLogin : Cerrar(w)
    \/ Tick(TIEMPO_BLOQUEO)

SpecLogin == InitLogin /\ [][NextLogin]_vars

(***************************************************************************)
(* The server under logins and registrations that lack a field or carry it *)
(* empty, next to complete ones, handled by two concurrent workers.        *)
(***************************************************************************)
MaxConexionesFaltan == 3

PeticionesFaltan ==
    {LOGIN_ALICE_MAL,
     Mensaje(REGISTRO, Credenciales("bob", PASS_OK)),
     Mensaje(LOGIN, Credenciales("alice", <<>>)),
     Mensaje(LOGIN, Credenciales("", PASS_OK)),
     Mensaje(LOGIN, [username |-> "alice"]),
     Mensaje(LOGIN, [password |-> PASS_OK]),
     Mensaje(REGISTRO, Credenciales("bob", <<>>)),
     Mensaje(REGISTRO, Credenciales("", PASS_OK)),
     Mensaje(REGISTRO, [username |-> "bob"]),
     Mensaje(REGISTRO, [password |-> PASS_OK])}

NextFaltan ==
    \/ \E w \in WorkersLogin : \E m \in PeticionesFaltan :
           AtenderLogin(w, m, MaxConexionesFaltan)
    \/ \E w \in WorkersLogin : LoginVerificarLimite(w)
    \/ \E w \in WorkersLogin : LoginAutenticar(w)
    \/ \E w \in WorkersLogin : LoginRegistrarIntento(w)
    \/ \E w \in WorkersLogin : RegistrarExiste(w)
    \/ \E w \in WorkersLogin : \E salt \in Sales : RegistrarCrear(w, salt)
    \/ \E w \in WorkersLogin : Cerrar(w)

SpecFaltan == InitLogin /\ [][NextFaltan]_vars

(***************************************************************************)
(* The server under logins for alice, one connection handled at a time, as *)
(* time passes in steps shorter than the window of the attempt counter.    *)
(***************************************************************************)
MaxConexionesVentana == 5
PasoVentana == 3

NextVentana ==
    \/ \E m \in {LOGIN_ALICE_OK, LOGIN_ALICE_MAL} :
           AtenderLogin(1, m, MaxConexionesVentana)
    \/ LoginVerificarLimite(1)
    \/ LoginAutenticar(1)
    \/ LoginRegistrarIntento(1)
    \/ Cerrar(1)
    \/ Tick(PasoVentana)

SpecVentana == InitLogin /\ [][NextVentana]_vars

(***************************************************************************)
(* The server under registrations packed by clients with fresh nonces,     *)
(* handled by concurrent workers.                                          *)
(***************************************************************************)
MaxConexionesRegistro == 2

REG_ALICE_OTRA == Mensaje(REGISTRO, Credenciales("alice", PASS_MAL))
REG_ALICE_DEBIL == Mensaje(REGISTRO, Credenciales("alice", PASS_DEBIL))
REG_BOB == Mensaje(REGISTRO, Credenciales("bob", PASS_OK))

PeticionesRegistro == {REG_ALICE, REG_ALICE_OTRA, REG_ALICE_DEBIL, REG_BOB}

NextRegistro ==
    \/ \E w \in Workers : \E m \in PeticionesRegistro :
           AtenderLogin(w, m, MaxConexionesRegistro)
    \/ \E w \in Workers : RegistrarExiste(w)
    \/ \E w \in Workers : \E salt \in Sales : RegistrarCrear(w, salt)
    \/ \E w \in Workers : Cerrar(w)

SpecRegistro == Init /\ [][NextRegistro]_vars

(***************************************************************************)
(* The server under registrations with passwords of every kind, one        *)
(* connection at a time.                                                   *)
(***************************************************************************)
MaxConexionesPassword == 2

PeticionesPassword ==
    {Mensaje(REGISTRO, Credenciales(u, p)) : u \in Usernames, p \in Passwords}

NextPassword ==
    \/ \E m \in PeticionesPassword : AtenderLogin(1, m, MaxConexionesPassword)
    \/ RegistrarExiste(1)
    \/ \E salt \in Sales : RegistrarCrear(1, salt)
    \/ Cerrar(1)

SpecPassword == Init /\ [][NextPassword]_vars

(***************************************************************************)
(* Two usernames with one history: alice, registered, and bob, unknown.    *)
(* Each login for alice with a wrong password comes with a login for bob   *)
(* at the same moment; worker 1 serves alice, worker 2 serves bob, each    *)
(* running _procesar_login from its first line to its last.                *)
(***************************************************************************)
MaxParejas == 7

LOGIN_BOB_OK == Mensaje(LOGIN, Credenciales("bob", PASS_OK))
LOGIN_BOB_MAL == Mensaje(LOGIN, Credenciales("bob", PASS_MAL))

\* the history of failures after a run of _procesar_login
racha_tras(antes, despues, respuesta, r) ==
    IF respuesta.texto \in {MSG_BLOQUEADO, MSG_FALTA_LOGIN} THEN r
    ELSE IF respuesta.status = "ok" THEN 0
    ELSE IF despues.intentos = 1 /\ antes.intentos # 0 THEN 1
    ELSE r + 1

LoginGemelos(m1, m2) ==
    LET d1 == desde_json(json_dumps(m1))
        d2 == desde_json(json_dumps(m2))
        u1 == d1.datos.username
        u2 == d2.datos.username
        a == procesar_login(usuarios, Estado(intentos_login, u1),
                            get(d1.datos, "username"), get(d1.datos, "password"), now)
        b == procesar_login(usuarios, Estado(intentos_login, u2),
                            get(d2.datos, "username"), get(d2.datos, "password"), now)
    IN  /\ bucle = "accept"
        /\ socket_servidor = "abierto"
        /\ pc[1] = "libre" /\ pc[2] = "libre"
        /\ bucle' = BucleTras
        /\ contador_conexiones < 2 * MaxParejas
        /\ contador_conexiones' = contador_conexiones + 2
        /\ num_conn' = [num_conn EXCEPT ![1] = contador_conexiones + 1,
                                        ![2] = contador_conexiones + 2]
        /\ mensajes' = [mensajes EXCEPT ![1] = d1, ![2] = d2]
        /\ intentos_login' = Poner(Poner(intentos_login, u1, a.estado), u2, b.estado)
        /\ racha' = [racha EXCEPT
                ![u1] = racha_tras(Estado(intentos_login, u1), a.estado, a.resp, @),
                ![u2] = racha_tras(Estado(intentos_login, u2), b.estado, b.resp, @)]
        /\ primero' = primero_tras(racha', now)
        /\ resp' = [resp EXCEPT ![1] = a.resp, ![2] = b.resp]
        /\ pc' = [pc EXCEPT ![1] = "cerrar", ![2] = "cerrar"]
        /\ UNCHANGED <<barridos, activo, socket_servidor, msg, now, usuarios, nonces, transacciones, datos, exito,
                       admitido, cuenta, tx_ok, tx_origen, repetido>>

NextGemelos ==
    \/ \E m2 \in {LOGIN_BOB_OK, LOGIN_BOB_MAL} : LoginGemelos(LOGIN_ALICE_MAL, m2)
    \/ \E w \in {1, 2} : Cerrar(w)
    \/ Tick(VENTANA_INTENTOS)

SpecGemelos == InitLogin /\ [][NextGemelos]_vars

(***************************************************************************)
(* The server under transaccion requests packed by clients with fresh      *)
(* nonces, handled by concurrent workers.                                  *)
(***************************************************************************)
MaxConexionesTx == 2

TX_ALICE_CERO == Mensaje(TRANSACCION, Transferencia("alice", "ES1234", "ES5678", Numero(0)))
TX_ALICE_NEGATIVA == Mensaje(TRANSACCION, Transferencia("alice", "ES1234", "ES5678", Numero(-5)))
TX_ALICE_CADENA == Mensaje(TRANSACCION, Transferencia("alice", "ES1234", "ES5678", Cadena(100)))
TX_ALICE_INCOMPLETA == Mensaje(TRANSACCION, [username |-> "alice", cuenta_origen |-> "ES1234"])

PeticionesTx ==
    {TX_ALICE, TX_BOB, TX_ALICE_CERO, TX_ALICE_NEGATIVA, TX_ALICE_CADENA,
     TX_ALICE_INCOMPLETA}

NextTx ==
    \/ \E w \in Workers : \E m \in PeticionesTx :
           AtenderLogin(w, m, MaxConexionesTx)
    \/ \E w \in Workers : ProcesarTransferencia(w)
    \/ \E w \in Workers : Cerrar(w)

SpecTx == Init /\ [][NextTx]_vars

(***************************************************************************)
(* The server under transfers of alice, who is registered and whose failed *)
(* logins lock her, and of bob, who has no row and never logged in: one    *)
(* worker serves the logins while the other serves the transfers.          *)
(***************************************************************************)
MaxConexionesCuentas == 7

NextCuentas ==
    \/ AtenderLogin(1, LOGIN_ALICE_MAL, MaxConexionesCuentas)
    \/ \E m \in {TX_ALICE, TX_BOB} : AtenderLogin(2, m, MaxConexionesCuentas)
    \/ \E w \in WorkersLogin : LoginVerificarLimite(w)
    \/ \E w \in WorkersLogin : LoginAutenticar(w)
    \/ \E w \in WorkersLogin : LoginRegistrarIntento(w)
    \/ \E w \in WorkersLogin : ProcesarTransferencia(w)
    \/ \E w \in WorkersLogin : Cerrar(w)

SpecCuentas == InitLogin /\ [][NextCuentas]_vars

(***************************************************************************)
(* Properties.                                                             *)
(***************************************************************************)
\* the request in these bytes carries the tag of its payload and nonce
\* under the shared key
MacValida(d) ==
    LET s == desempaquetar(d)
    IN  s.ok /\ s.mac = calcular_mac(clave_compartida, s.mensaje, s.nonce)

\* where a worker is while a handler runs
EnManejador == {"reg_existe", "reg_crear", "login_gate", "login_auth",
                "login_reg", "tx_insert"}

\* where a worker is before verificar_mensaje_completo has ended
EnValidacion == {"libre", "recv", "val_select", "val_insert"}

TextosBloqueado == {MSG_BLOQUEADO, MSG_BLOQUEADO_POR}
TextosReplay == {MSG_NONCE}

\* the entry of username is locked at this moment
Bloqueado(username) ==
    /\ username \in DOMAIN intentos_login
    /\ intentos_login[username].bloqueado_hasta # <<>>
    /\ now < intentos_login[username].bloqueado_hasta[1]

\* C1: with one connection handled at a time and no sweep, of the MAC-valid
\* requests that carry one nonce exactly the first is accepted, and every
\* other is answered with the replay error.
C1_PrimeroAceptado ==
    /\ \A n \in DOMAIN cuenta :
           cuenta[n].validos >= 1 => cuenta[n].aceptados = 1
    /\ \A w \in Workers :
           (pc[w] \notin EnValidacion /\ MacValida(datos[w]) /\ admitido[w] # "True")
               => (pc[w] = "cerrar" /\ resp[w] = enviar_error(MSG_NONCE, 0))

C1_Testigo ==
    \E w \in Workers :
        /\ pc[w] = "cerrar"
        /\ resp[w] = enviar_error(MSG_NONCE, 0)
        /\ cuenta[Sobre(w).nonce].validos >= 2
        /\ cuenta[Sobre(w).nonce].aceptados = 1

\* C2: the bytes of a transaccion that was answered ok, sent again on a new
\* connection, are answered with the replay error and reach no handler; the
\* table holds one row for them.
C2_ReplayRechazado ==
    /\ \A w \in Workers :
           repetido[w] =>
               /\ pc[w] \in {"val_select", "cerrar"}
               /\ pc[w] = "cerrar" =>
                      (resp[w].status = "error" /\ resp[w].texto \in TextosReplay)
    /\ \A d \in tx_ok :
           Cardinality({i \in DOMAIN tx_origen : tx_origen[i] = d}) = 1

C2_Testigo ==
    \E w \in Workers :
        /\ repetido[w]
        /\ pc[w] = "cerrar"
        /\ Len(transacciones) = 1

\* C3: every call of validar_nonce returns admitted or duplicate, also when
\* two workers call it with one nonce, and no two rows share a valor.
C3_ValidarNonceAtomico ==
    /\ \A w \in Workers : admitido[w] \in {"", "True", "False"}
    /\ \A r1 \in nonces : \A r2 \in nonces : r1.valor = r2.valor => r1 = r2

\* C4: a request that keeps the tag of an envelope packed with the shared
\* key and differs from it in the payload or in the nonce is answered with
\* the MAC error and goes no further.
Manipulado(d) ==
    LET s == desempaquetar(d)
    IN  /\ s.ok
        /\ \E e \in SobresLegitimos :
               /\ desempaquetar(e).mac = s.mac
               /\ \/ desempaquetar(e).mensaje # s.mensaje
                  \/ desempaquetar(e).nonce # s.nonce

C4_MacLigaPayloadYNonce ==
    \A w \in Workers :
        (pc[w] \notin {"libre", "recv"} /\ Manipulado(datos[w]))
            => (pc[w] = "cerrar" /\ resp[w] = enviar_error(MSG_MAC, 0))

\* C5: a request that fails the MAC check is answered with the MAC error
\* without a call of validar_nonce, and the step that rejects it leaves the
\* nonces table as it was; a nonce is in the table only when a request
\* carrying it was accepted.
C5_Estado ==
    /\ \A w \in Workers :
           (pc[w] \notin {"libre", "recv"} /\ Sobre(w).ok /\ ~MacValida(datos[w]))
               => /\ pc[w] = "cerrar"
                  /\ resp[w] = enviar_error(MSG_MAC, 0)
                  /\ admitido[w] = ""
    /\ \A r \in nonces : Cta(r.valor).aceptados >= 1

C5_Paso ==
    \A w \in Workers :
        (pc[w] = "recv" /\ pc'[w] # "recv" /\ ~MacValida(datos'[w]))
            => nonces' = nonces

C5_NonceNoConsumido == [](C5_Estado) /\ [][C5_Paso]_vars

C5_Testigo ==
    \E w \in Workers :
        /\ pc[w] = "val_insert"
        /\ MacValida(datos[w])
        /\ Cta(Sobre(w).nonce).invalidos >= 1
        /\ \A r \in nonces : r.valor # Sobre(w).nonce

\* C6: a handler runs only for a request whose MAC verifies under the shared
\* key and whose nonce this worker had admitted, and every change of
\* usuarios, transacciones and the login-attempt map is a step of such a
\* handler; every transaction row has mac_verificado true.
C6_Estado ==
    /\ \A w \in Workers :
           pc[w] \in EnManejador
               => /\ MacValida(datos[w])
                  /\ admitido[w] = "True"
                  /\ \E r \in nonces : r.valor = Sobre(w).nonce
    /\ \A i \in DOMAIN transacciones : transacciones[i].mac_verificado

C6_Paso ==
    (usuarios' # usuarios \/ transacciones' # transacciones
     \/ intentos_login' # intentos_login)
        => \E w \in Workers :
               /\ pc[w] \in EnManejador
               /\ pc'[w] # pc[w]
               /\ MacValida(datos[w])
               /\ admitido[w] = "True"

C6_SoloValidados == [](C6_Estado) /\ [][C6_Paso]_vars

C6_Testigo ==
    /\ Len(transacciones) >= 1
    /\ usuarios # {} \/ DOMAIN intentos_login # {}

\* C7: a login that meets the gate while the entry of its username is locked
\* is answered with an error that says bloqueado, whatever its password, and
\* goes to no credential check; it leaves the entry as it was.
C7_Paso ==
    \A w \in Workers :
        (pc[w] = "login_gate" /\ pc'[w] # "login_gate"
         /\ Bloqueado(mensajes[w].datos.username))
            => /\ pc'[w] = "cerrar"
               /\ resp'[w].status = "error"
               /\ resp'[w].texto \in TextosBloqueado
               /\ exito'[w] = FALSE

C7_BloqueoDomina == [][C7_Paso]_vars

C7_Testigo ==
    \E w \in Workers :
        /\ pc[w] = "cerrar"
        /\ resp[w].texto = MSG_BLOQUEADO
        /\ mensajes[w].datos.password = PASS_OK
        /\ Bloqueado(mensajes[w].datos.username)

\* C8: the failure that is the 5th in a row locks the entry until 15 minutes
\* after it and is answered with a message that says bloqueado; a failure
\* that is the 4th or less in a row leaves the entry unlocked.
C8_Estado ==
    \A u \in DOMAIN intentos_login :
        racha[u] < MAX_INTENTOS_LOGIN => intentos_login[u].bloqueado_hasta = <<>>

C8_Paso ==
    \A w \in Workers :
        (pc[w] = "login_reg" /\ pc'[w] = "cerrar" /\ ~exito[w])
            => LET u == mensajes[w].datos.username
               IN  /\ racha'[u] = 5
                          => /\ intentos_login'[u].bloqueado_hasta = <<now + 15>>
                             /\ resp'[w].status = "error"
                             /\ resp'[w].texto \in TextosBloqueado
                   /\ racha'[u] < 5
                          => /\ intentos_login'[u].bloqueado_hasta = <<>>
                             /\ resp'[w].texto \notin TextosBloqueado

C9_CompuertaAtomica ==
    \A u \in DOMAIN intentos_login :
        intentos_login[u].intentos <= 5 /\ racha[u] <= 5

\* C10: an entry that is locked stays locked, with its counter, for as long
\* as its lock has not expired.
C10_Paso ==
    \A u \in DOMAIN intentos_login :
        (Bloqueado(u) /\ now' < intentos_login[u].bloqueado_hasta[1])
            => /\ intentos_login'[u].bloqueado_hasta # <<>>
               /\ intentos_login'[u].bloqueado_hasta[1]
                      >= intentos_login[u].bloqueado_hasta[1]
               /\ intentos_login'[u].intentos >= 5

C10_BloqueoPersistente == [][C10_Paso]_vars

\* a registro request that passed the checks of _procesar_registro on its
\* fields and reached Autenticacion.registrar
RegistroAdmitido(w) ==
    /\ mensajes[w].ok
    /\ mensajes[w].tipo = REGISTRO
    /\ ~FaltaTexto(get(mensajes[w].datos, "username"))
    /\ ~FaltaCaracteres(get(mensajes[w].datos, "password"))
    /\ validar_password(mensajes[w].datos.password).ok

\* C11: a registro for a username that has a row is answered with the error
\* 'El usuario ya existe' and changes nothing; no step removes or changes a
\* row of usuarios, and a username has one row at most.
C11_Estado ==
    \A r1 \in usuarios : \A r2 \in usuarios :
        r1.username = r2.username => r1 = r2

C11_Paso ==
    /\ usuarios \subseteq usuarios'
    /\ \A w \in Workers :
           (/\ pc[w] = "reg_existe"
            /\ pc'[w] # "reg_existe"
            /\ \E r \in usuarios : r.username = mensajes[w].datos.username)
               => /\ pc'[w] = "cerrar"
                  /\ resp'[w] = enviar_error(MSG_EXISTE, 0)
                  /\ usuarios' = usuarios

C11_DuplicadoRechazado == [](C11_Estado) /\ [][C11_Paso]_vars

C11_Testigo ==
    \E w \in Workers :
        /\ pc[w] = "cerrar"
        /\ resp[w] = enviar_error(MSG_EXISTE, 0)
        /\ \E r \in usuarios :
               /\ r.username = mensajes[w].datos.username
               /\ ~verificar_password(r.password_hash, mensajes[w].datos.password)

\* C12: every registro that reaches Autenticacion.registrar, also when
\* another for the same username runs at the same time, is answered ok or
\* with the error 'El usuario ya existe', and a username has one row.
C12_RegistroConcurrente ==
    /\ \A w \in Workers :
           (pc[w] = "cerrar" /\ RegistroAdmitido(w))
               => resp[w] \in {enviar_ok(MSG_REGISTRADO, 0),
                               enviar_error(MSG_EXISTE, 0)}
    /\ \A r1 \in usuarios : \A r2 \in usuarios :
           r1.username = r2.username => r1 = r2

\* C13: with one history of attempts, the answer to a login for a username
\* without row equals, in status, text and number, the answer to a login
\* with a wrong password for a registered username, and the two entries of
\* the attempt map stay equal.
C13_RespuestaIndistinguible ==
    /\ Estado(intentos_login, "alice") = Estado(intentos_login, "bob")
    /\ (/\ pc[1] = "cerrar" /\ pc[2] = "cerrar"
        /\ \E r \in usuarios : r.username = mensajes[1].datos.username
        /\ \A r \in usuarios : r.username # mensajes[2].datos.username)
           => /\ resp[1].status = resp[2].status
              /\ resp[1].texto = resp[2].texto
              /\ resp[1].n = resp[2].n

C13_Testigo ==
    /\ pc[1] = "cerrar" /\ pc[2] = "cerrar"
    /\ mensajes[2].datos.username = "bob"
    /\ resp[2] = enviar_error(MSG_BLOQUEADO_POR, 15)
    /\ resp[1] = resp[2]

\* C14: a login that passed the gate and failed on its credentials is
\* answered with status error and the text 'Credenciales incorrectas', the
\* same on every attempt.
C14_Paso ==
    \A w \in Workers :
        (pc[w] = "login_reg" /\ pc'[w] = "cerrar" /\ ~exito[w])
            => resp'[w] = enviar_error(MSG_CREDENCIALES, 0)

C14_PasoPrefijo ==
    \A w \in Workers :
        (pc[w] = "login_reg" /\ pc'[w] = "cerrar" /\ ~exito[w])
            => LET n == intentos_login'[mensajes[w].datos.username].intentos
               IN  /\ msg[w] = "Credenciales incorrectas"
                   /\ resp'[w].status = "error"
                   /\ n < 5 =>
                          /\ resp'[w].texto =
                                 "Credenciales incorrectas" \o SUF_RESTANTES
                          /\ resp'[w].n = 5 - n
                   /\ n >= 5 =>
                          /\ resp'[w].texto =
                                 "Credenciales incorrectas" \o SUF_BLOQUEADO_POR
                          /\ resp'[w].n = 15

Registrada(username, password) ==
    \E r \in usuarios : \E salt \in Sales :
        r = [username |-> username,
             password_hash |-> hashear_password(password, salt)]

\* C15: a login for a registered username that the gate let pass is
\* answered ok exactly when its password is the one given at registration.
C15_LoginCorrecto ==
    \A w \in Workers :
        (/\ pc[w] = "cerrar"
         /\ mensajes[w].ok
         /\ mensajes[w].tipo = LOGIN
         /\ resp[w].texto # MSG_BLOQUEADO
         /\ \E r \in usuarios : r.username = mensajes[w].datos.username)
            => (resp[w].status = "ok"
                    <=> Registrada(mensajes[w].datos.username,
                                   mensajes[w].datos.password))

C15_Testigo ==
    \E w1 \in Workers : \E w2 \in Workers :
        /\ pc[w1] = "cerrar" /\ pc[w2] = "cerrar"
        /\ resp[w1] = enviar_ok(MSG_LOGIN_OK, 0)
        /\ mensajes[w1].datos.password = PASS_OK
        /\ resp[w2].texto = MSG_RESTANTES
        /\ mensajes[w2].datos.password = PASS_MAL

\* C16: the step that answers a transaccion with ok adds to the rows of
\* its username one row, with the accounts and the amount of the request
\* and mac_verificado true, and leaves the rows of every other username as
\* they were; no step changes or removes an earlier row.
C16_Paso ==
    /\ Len(transacciones') >= Len(transacciones)
    /\ SubSeq(transacciones', 1, Len(transacciones)) = transacciones
    /\ \A w \in Workers :
           (pc[w] = "tx_insert" /\ pc'[w] = "cerrar" /\ resp'[w].status = "ok")
               => LET d == mensajes[w].datos
                      antes == obtener_transacciones_usuario(transacciones, d.username)
                      despues == obtener_transacciones_usuario(transacciones', d.username)
                  IN  /\ antes \subseteq despues
                      /\ Cardinality(despues \ antes) = 1
                      /\ \A f \in despues \ antes :
                             /\ f.cuenta_origen = d.cuenta_origen
                             /\ f.cuenta_destino = d.cuenta_destino
                             /\ f.cantidad = d.cantidad
                             /\ f.mac_verificado = TRUE
                      /\ \A u \in Usernames \ {d.username} :
                             obtener_transacciones_usuario(transacciones', u)
                                 = obtener_transacciones_usuario(transacciones, u)

C16_RegistroUnico == [][C16_Paso]_vars

C16_Testigo ==
    /\ Len(transacciones) = 2
    /\ transacciones[1].username = "bob"
    /\ transacciones[2].username = "alice"
    /\ \E w \in Workers :
           /\ pc[w] = "cerrar"
           /\ resp[w] = enviar_ok(MSG_TX_OK, 2)
           /\ mensajes[w].datos.username = "alice"

\* C17: the step that ends a transaccion request without the answer ok
\* leaves the transacciones table as it was.
C17_Paso ==
    \A w \in Workers :
        (/\ pc[w] # "cerrar"
         /\ pc'[w] = "cerrar"
         /\ mensajes'[w].ok
         /\ mensajes'[w].tipo = TRANSACCION
         /\ resp'[w].status # "ok")
            => transacciones' = transacciones

C17_ErrorSinRegistro == [][C17_Paso]_vars

\* C18: every row of transacciones has an amount greater than 0, and a
\* transaccion whose amount is 0 or less is answered with an error.
C18_CantidadPositiva ==
    /\ \A i \in DOMAIN transacciones : transacciones[i].cantidad.v > 0
    /\ \A w \in Workers :
           (/\ pc[w] = "cerrar"
            /\ mensajes[w].ok
            /\ mensajes[w].tipo = TRANSACCION
            /\ "cantidad" \in DOMAIN mensajes[w].datos
            /\ mensajes[w].datos.cantidad.v <= 0)
               => resp[w].status = "error"

\* C19: on a connection the worker reads once, answers once at most and
\* only after it has read, and after the answer does nothing but close;
\* whatever the read gave, the connection is closed in the end.
C19_Estado ==
    \A w \in Workers :
        /\ resp[w] # SinRespuesta => pc[w] = "cerrar"
        /\ pc[w] \in {"libre", "recv"} =>
               (resp[w] = SinRespuesta /\ datos[w] = SinDatos)

C19_Paso ==
    \A w \in Workers :
        /\ datos'[w] # datos[w] =>
               \/ pc[w] = "recv" /\ datos[w] = SinDatos /\ resp[w] = SinRespuesta
               \/ pc[w] = "cerrar" /\ pc'[w] = "libre"
        /\ resp'[w] # resp[w] =>
               \/ /\ resp[w] = SinRespuesta
                  /\ pc[w] \notin {"libre", "cerrar"}
                  /\ pc'[w] = "cerrar"
               \/ pc[w] = "cerrar" /\ pc'[w] = "libre"
        /\ (pc[w] = "recv" /\ pc'[w] # "recv") =>
               (datos[w] = SinDatos /\ resp[w] = SinRespuesta)
        /\ (pc[w] = "cerrar" /\ pc'[w] # "cerrar") => pc'[w] = "libre"

C19_Cierra ==
    \A w \in Workers : (pc[w] \notin {"libre", "recv"}) ~> (pc[w] = "libre")

C19_UnIntercambio == [](C19_Estado) /\ [][C19_Paso]_vars /\ C19_Cierra

C19_Testigo ==
    \E w1 \in Workers : \E w2 \in Workers :
        /\ pc[w1] = "cerrar" /\ datos[w1] # SinDatos /\ resp[w1] = SinRespuesta
        /\ pc[w2] = "cerrar" /\ resp[w2].status = "ok"

\* C20: a connection that delivered bytes has an answer with status ok or
\* error when the worker comes to close it.
C20_SiempreRespuesta ==
    \A w \in Workers :
        (pc[w] = "cerrar" /\ datos[w] # SinDatos)
            => resp[w].status \in {"ok", "error"}

\* C21: bytes that are no envelope (no JSON, JSON that is no object, an
\* object that lacks mensaje, mac or nonce) are answered with the error
\* 'Mensaje malformado' and go no further, and the step that rejects them
\* leaves usuarios, nonces, transacciones and the login-attempt map as they
\* were.
C21_Estado ==
    \A w \in Workers :
        (pc[w] \notin {"libre", "recv"} /\ datos[w] \in Malformados)
            => /\ pc[w] = "cerrar"
               /\ resp[w] = enviar_error(MSG_MALFORMADO, 0)
               /\ admitido[w] = ""
               /\ ~mensajes[w].ok

C21_Paso ==
    \A w \in Workers :
        (pc[w] = "recv" /\ pc'[w] # "recv" /\ datos'[w] \in Malformados)
            => UNCHANGED <<usuarios, nonces, transacciones, intentos_login>>

C21_SobreMalformado == [](C21_Estado) /\ [][C21_Paso]_vars

C21_Testigo ==
    \E w \in Workers :
        /\ pc[w] = "cerrar"
        /\ datos[w] \in {SobreSinMensaje, SobreSinMac, SobreSinNonce, JsonLista}
        /\ resp[w] = enviar_error(MSG_MALFORMADO, 0)
        /\ nonces # {}
        /\ usuarios # {} \/ Len(transacciones) >= 1

\* C22: an envelope whose decoded nonce is not 32 bytes long is answered
\* with the error 'Mensaje malformado' before the MAC check and the call of
\* validar_nonce, and every row of nonces holds a value of 32 bytes.
C22_AnchoFijo ==
    /\ \A w \in Workers :
           (pc[w] \notin {"libre", "recv"} /\ Sobre(w).ok
            /\ Len(Sobre(w).nonce) # NONCE_SIZE)
               => /\ pc[w] = "cerrar"
                  /\ resp[w] = enviar_error(MSG_MALFORMADO, 0)
                  /\ admitido[w] = ""
    /\ \A r \in nonces : Len(r.valor) = NONCE_SIZE

\* C23: a validated request whose tipo is none of registro, login and
\* transaccion is answered with the error 'Tipo de mensaje no soportado',
\* reaches no handler, and the step that dispatches it leaves usuarios,
\* transacciones and the login-attempt map as they were.
TiposAtendidos == {REGISTRO, LOGIN, TRANSACCION}

C23_Estado ==
    \A w \in Workers :
        (mensajes[w].ok /\ mensajes[w].tipo \notin TiposAtendidos)
            => /\ pc[w] = "cerrar"
               /\ resp[w] = enviar_error(MSG_TIPO, 0)

C23_Paso ==
    \A w \in Workers :
        (pc[w] = "val_insert" /\ mensajes'[w].ok
         /\ mensajes'[w].tipo \notin TiposAtendidos)
            => UNCHANGED <<usuarios, transacciones, intentos_login>>

C23_TipoNoSoportado == [](C23_Estado) /\ [][C23_Paso]_vars

C23_Testigo ==
    /\ \E w \in Workers :
           /\ pc[w] = "cerrar"
           /\ mensajes[w].ok
           /\ mensajes[w].tipo \in {LOGOUT, RESPUESTA}
           /\ resp[w] = enviar_error(MSG_TIPO, 0)
    /\ usuarios # {} \/ Len(transacciones) >= 1 \/ DOMAIN intentos_login # {}

\* C24: a registro whose password is shorter than 12 characters is answered
\* with the error of that rule, also when its username has a row, and with
\* no call of Autenticacion.registrar; the step that answers it leaves
\* usuarios as it was, and no row holds such a password.
RegistroDebil(m) ==
    /\ m.ok
    /\ m.tipo = REGISTRO
    /\ ~FaltaTexto(get(m.datos, "username"))
    /\ ~FaltaCaracteres(get(m.datos, "password"))
    /\ Len(m.datos.password) < 12

C24_Estado ==
    /\ \A w \in Workers :
           RegistroDebil(mensajes[w])
               => /\ pc[w] = "cerrar"
                  /\ resp[w] = enviar_error(MSG_PW_LARGO, 0)
    /\ \A r \in usuarios : ~verificar_password(r.password_hash, PASS_DEBIL)

C24_Paso ==
    \A w \in Workers :
        (mensajes'[w] # mensajes[w] /\ RegistroDebil(mensajes'[w]))
            => usuarios' = usuarios

C26_Estado ==
    /\ socket_servidor = "cerrado" => ~activo
    /\ bucle \in {"fin", "exit"} => ~activo

C26_Paso ==
    /\ socket_servidor = "cerrado" =>
           /\ contador_conexiones' = contador_conexiones
           /\ \A w \in Hilos : pc[w] = "libre" => pc'[w] = "libre"
           /\ socket_servidor' = "cerrado"
    /\ bucle \in {"fin", "exit"} =>
           /\ bucle' \in {"fin", "exit"}
           /\ contador_conexiones' = contador_conexiones
    /\ ~activo => ~activo'

C26_Termina ==
    ~activo ~> (bucle \in {"fin", "exit"} /\ socket_servidor = "cerrado")

C26_Detenido == [](C26_Estado) /\ [][C26_Paso]_vars /\ C26_Termina

\* detener called by another thread with a connection accepted before: the
\* loop has ended, the socket is closed, and the process still runs
C26_Testigo ==
    /\ bucle = "fin"
    /\ ~activo
    /\ socket_servidor = "cerrado"
    /\ contador_conexiones >= 1

(***************************************************************************)
(* C27: after a shutdown signal every started worker runs to completion    *)
(* before the process exits; no request in flight is cut off between its   *)
(* commit to the store and its response.  When the signal handler ends the *)
(* process from inside the loop, no worker is left that committed the      *)
(* nonce of its request and has written no response.                       *)
(***************************************************************************)
C27_Paso ==
    bucle = "accept" /\ bucle' = "exit" =>
        \A w \in Hilos : admitido[w] = "True" => resp[w] # SinRespuesta

C27_Drenado == [][C27_Paso]_vars

(***************************************************************************)
(* C28: an exception raised while a worker handles a connection never      *)
(* stops the accept loop and never affects another connection.  While the  *)
(* server is active the loop is at accept with its socket open, whatever   *)
(* the workers do; a step in which a worker fails (it comes to its close   *)
(* with no ok response for the bytes it read) leaves the loop, the flag,   *)
(* the listening socket and every other worker as they were; and the       *)
(* failed worker goes on to close its own socket and to nothing else.      *)
(***************************************************************************)
Falla(w) ==
    /\ pc[w] \notin {"libre", "cerrar"}
    /\ pc'[w] = "cerrar"
    /\ datos'[w] # SinDatos
    /\ resp'[w].status # "ok"

C28_Estado == activo => bucle = "accept" /\ socket_servidor = "abierto"

C28_Paso ==
    \A w \in Hilos :
        /\ Falla(w) =>
               /\ bucle' = bucle
               /\ activo' = activo
               /\ socket_servidor' = socket_servidor
               /\ contador_conexiones' = contador_conexiones
               /\ \A v \in Hilos \ {w} :
                      /\ pc'[v] = pc[v]
                      /\ datos'[v] = datos[v]
                      /\ resp'[v] = resp[v]
                      /\ num_conn'[v] = num_conn[v]
        /\ (pc[w] = "cerrar" /\ pc'[w] # "cerrar") =>
               /\ pc'[w] = "libre"
               /\ \A v \in Hilos \ {w} : pc'[v] = pc[v] /\ resp'[v] = resp[v]

C28_ExcepcionAislada == [](C28_Estado) /\ [][C28_Paso]_vars

\* the worker of the request whose payload raised in Mensaje.desde_json has
\* closed, and the loop, still accepting, has the second connection
\* answered ok
C28_Testigo ==
    /\ activo
    /\ bucle = "accept"
    /\ nonce_registrado(nonces, desempaquetar(SobreCorridoIzquierda).nonce)
    /\ \A w \in Hilos : datos[w] # SobreCorridoIzquierda
    /\ \E v \in Hilos :
           /\ num_conn[v] = 2
           /\ pc[v] = "cerrar"
           /\ resp[v].status = "ok"

(***************************************************************************)
(* C29: a login that meets the gate when the lock of its username has      *)
(* expired (now >= bloqueado_hasta) is permitted and returns the entry to  *)
(* Idle, bloqueado_hasta cleared and the counter at 0; and a step that     *)
(* sets a lock is the failure that is at least the 5th since the counter   *)
(* was last at 0, so 5 new failures are needed to lock the entry again.    *)
(***************************************************************************)
Expirado(username) ==
    /\ username \in DOMAIN intentos_login
    /\ intentos_login[username].bloqueado_hasta # <<>>
    /\ now >= intentos_login[username].bloqueado_hasta[1]

C29_Paso ==
    /\ \A w \in WorkersLogin :
           (pc[w] = "login_gate" /\ pc'[w] # "login_gate"
            /\ Expirado(mensajes[w].datos.username))
               => LET u == mensajes[w].datos.username
                  IN  /\ pc'[w] = "login_auth"
                      /\ resp'[w] = SinRespuesta
                      /\ intentos_login'[u].bloqueado_hasta = <<>>
                      /\ intentos_login'[u].intentos = 0
                      /\ racha'[u] = 0
    /\ \A u \in DOMAIN intentos_login' :
           (/\ intentos_login'[u].bloqueado_hasta # <<>>
            /\ intentos_login'[u].bloqueado_hasta
                   # Estado(intentos_login, u).bloqueado_hasta)
               => /\ racha'[u] >= MAX_INTENTOS_LOGIN
                  /\ racha'[u] = racha[u] + 1

C29_BloqueoExpirado == [][C29_Paso]_vars

\* the 5th failure was answered with the lock, 15 minutes passed, and the
\* next login, permitted, failed as the first of a new count
C29_Testigo ==
    \E v \in WorkersLogin : \E w \in WorkersLogin :
        /\ now >= TIEMPO_BLOQUEO
        /\ pc[v] = "cerrar"
        /\ resp[v] = enviar_error(MSG_BLOQUEADO_POR, TIEMPO_BLOQUEO)
        /\ pc[w] = "cerrar"
        /\ resp[w] = enviar_error(MSG_RESTANTES, MAX_INTENTOS_LOGIN - 1)
        /\ intentos_login["alice"].bloqueado_hasta = <<>>
        /\ intentos_login["alice"].intentos = 1

(***************************************************************************)
(* C30: a successful login for a username whose entry counts n < 5         *)
(* failures and has no lock resets the entry to Idle, counter 0 and no     *)
(* lock, and is answered ok; a failure adds one to the counter as it is,   *)
(* so the failures before a success are not counted with those after it.   *)
(***************************************************************************)
Contando(username) ==
    /\ Estado(intentos_login, username).intentos < MAX_INTENTOS_LOGIN
    /\ Estado(intentos_login, username).bloqueado_hasta = <<>>

C30_Paso ==
    \A w \in WorkersLogin :
        (pc[w] = "login_reg" /\ pc'[w] = "cerrar"
         /\ Contando(mensajes[w].datos.username))
            => LET u == mensajes[w].datos.username
               IN  /\ exito[w] =>
                          /\ intentos_login'[u].intentos = 0
                          /\ intentos_login'[u].bloqueado_hasta = <<>>
                          /\ racha'[u] = 0
                          /\ resp'[w] = enviar_ok(MSG_LOGIN_OK, 0)
                   /\ ~exito[w] =>
                          /\ intentos_login'[u].intentos
                                 = Estado(intentos_login, u).intentos + 1
                          /\ intentos_login'[u].bloqueado_hasta # <<>>
                                 <=> intentos_login'[u].intentos = MAX_INTENTOS_LOGIN

C30_ExitoReinicia == [][C30_Paso]_vars

\* the 4th failure in a row was answered with one attempt left, and the
\* success that followed it left the counter at 0
C30_Testigo ==
    \E v \in WorkersLogin : \E w \in WorkersLogin :
        /\ now = 0
        /\ pc[v] = "cerrar"
        /\ resp[v] = enviar_error(MSG_RESTANTES, 1)
        /\ pc[w] = "cerrar"
        /\ resp[w] = enviar_ok(MSG_LOGIN_OK, 0)
        /\ intentos_login["alice"].intentos = 0
        /\ intentos_login["alice"].bloqueado_hasta = <<>>

(***************************************************************************)
(* C31: the failure counter of a username is reset on the next login when  *)
(* more than 5 minutes have passed since the first failure of the current  *)
(* count, so that 5 failures lock the username only when all of them fall  *)
(* within 5 minutes of the first.  A lock is set by a failure no later     *)
(* than 5 minutes after the first failure of its count.                    *)
(***************************************************************************)
C31_VentanaDesdePrimero ==
    \A u \in DOMAIN intentos_login :
        (intentos_login[u].bloqueado_hasta # <<>> /\ primero[u] # <<>>)
            => (intentos_login[u].bloqueado_hasta[1] - TIEMPO_BLOQUEO)
                   - primero[u][1] <= VENTANA_INTENTOS

(***************************************************************************)
(* C32: a login denied for a locked username is answered with N minutes,   *)
(* N being the remaining time (bloqueado_hasta - now) divided by a minute  *)
(* and rounded up, also when the remaining time is a whole number of       *)
(* minutes.                                                                *)
(***************************************************************************)
techo(segundos, divisor) == (segundos + divisor - 1) \div divisor

C32_Paso ==
    \A w \in WorkersLogin :
        (pc[w] = "login_gate" /\ pc'[w] = "cerrar"
         /\ Bloqueado(mensajes[w].datos.username))
            => LET u == mensajes[w].datos.username
                   segundos == (intentos_login[u].bloqueado_hasta[1] - now) * 60
               IN  resp'[w] = enviar_error(MSG_BLOQUEADO, techo(segundos, 60))

C32_MinutosTecho == [][C32_Paso]_vars

(***************************************************************************)
(* C33: a nonce that was admitted is rejected by every later validar_nonce *)
(* for as long as its row is present, also after its expira has passed;    *)
(* only after limpiar_nonces_expirados has deleted the expired row is the  *)
(* value admitted again.  A SELECT that finds a row of the nonce answers   *)
(* the replay error and leaves the table; a nonce is admitted exactly when *)
(* the table has no row of it; rows leave the table only in a run of       *)
(* limpiar_nonces_expirados and only expired; and a value is admitted no   *)
(* more often than one plus the number of runs.                            *)
(***************************************************************************)
ConFila(n) == \E r \in nonces : r.valor = n

C33_Estado ==
    \A n \in DOMAIN cuenta : cuenta[n].aceptados <= 1 + Len(barridos)

C33_Paso ==
    /\ \A w \in Workers :
           /\ (pc[w] = "val_select" /\ pc'[w] # "val_select"
               /\ ConFila(Sobre(w).nonce))
                  => /\ pc'[w] = "cerrar"
                     /\ resp'[w] = enviar_error(MSG_NONCE, 0)
                     /\ admitido'[w] = "False"
                     /\ nonces' = nonces
           /\ (pc[w] = "val_insert" /\ pc'[w] # "val_insert")
                  => /\ admitido'[w] = "True" <=> ~ConFila(Sobre(w).nonce)
                     /\ ConFila(Sobre(w).nonce) => nonces' = nonces
    /\ (nonces \ nonces' # {})
           => /\ Len(barridos') = Len(barridos) + 1
              /\ \A r \in nonces \ nonces' : r.expira < now

C33_NonceHastaBarrido == [](C33_Estado) /\ [][C33_Paso]_vars

\* the nonce was admitted, rejected, swept after its expiry and admitted
\* again
C33_Testigo ==
    \E n \in DOMAIN cuenta :
        /\ cuenta[n].aceptados = 2
        /\ cuenta[n].validos = 3
        /\ Len(barridos) >= 1
        /\ barridos[1].eliminados >= 1

(***************************************************************************)
(* C34: limpiar_nonces_expirados run at time now deletes exactly the rows  *)
(* whose expira, the time of admission plus 5 minutes, is earlier than     *)
(* now, returns their number and leaves every other row; a second run at   *)
(* the same now deletes nothing and returns 0.                             *)
(***************************************************************************)
C34_Paso ==
    /\ \A r \in nonces' \ nonces : r.expira = now + DURACION_MINUTOS
    /\ Len(barridos') = Len(barridos) + 1 =>
           LET b == barridos'[Len(barridos')]
           IN  /\ b.ahora = now
               /\ nonces' = {r \in nonces : r.expira >= now}
               /\ b.eliminados = Cardinality(nonces) - Cardinality(nonces')
               /\ (Len(barridos) >= 1 /\ barridos[Len(barridos)].ahora = now)
                      => (b.eliminados = 0 /\ nonces' = nonces)

C34_BarridoExacto == [][C34_Paso]_vars

\* a run that deleted an expired row and left the row that expires at the
\* time of the run, and a second run at the same time that returned 0
C34_Testigo ==
    /\ Len(barridos) = 2
    /\ barridos[1].ahora = barridos[2].ahora
    /\ barridos[1].eliminados >= 1
    /\ barridos[2].eliminados = 0
    /\ \E r \in nonces : r.expira = barridos[2].ahora

(***************************************************************************)
(* C35: a password that fails several strength rules is answered with the  *)
(* message of the first rule it fails in the order length >= 12,           *)
(* uppercase, lowercase, digit, symbol, not entirely whitespace.           *)
(***************************************************************************)
primera_regla(password) ==
    IF Len(password) < 12 THEN MSG_PW_LARGO
    ELSE IF ~Contiene(password, Mayusculas) THEN MSG_PW_MAYUS
    ELSE IF ~Contiene(password, Minusculas) THEN MSG_PW_MINUS
    ELSE IF ~Contiene(password, Digitos) THEN MSG_PW_NUMERO
    ELSE IF ~Contiene(password, Simbolos) THEN MSG_PW_SIMBOLO
    ELSE IF \A i \in 1 .. Len(password) : password[i] \in EspaciosStrip
    THEN MSG_PW_VACIA
    ELSE ""

C35_PrimeraRegla ==
    \A w \in Workers :
        (/\ pc[w] = "cerrar"
         /\ mensajes[w].ok
         /\ mensajes[w].tipo = REGISTRO
         /\ primera_regla(mensajes[w].datos.password) # "")
            => resp[w] = enviar_error(primera_regla(mensajes[w].datos.password), 0)

(***************************************************************************)
(* C36: each transaccion answered ok gets an id greater than every id      *)
(* given before it, also with workers running concurrently, and the ok     *)
(* response reports the id of the row that this request appended.          *)
(***************************************************************************)
C36_Estado ==
    /\ \A i \in DOMAIN transacciones : \A j \in DOMAIN transacciones :
           i < j => transacciones[i].id < transacciones[j].id
    /\ \A w \in Workers :
           (pc[w] = "cerrar" /\ resp[w].status = "ok" /\ resp[w].texto = MSG_TX_OK)
               => \E i \in DOMAIN transacciones :
                      /\ transacciones[i].id = resp[w].n
                      /\ tx_origen[i] = datos[w]
                      /\ \A j \in DOMAIN transacciones :
                             transacciones[j].id = resp[w].n => j = i

C36_Paso ==
    transacciones' # transacciones =>
        /\ Len(transacciones') = Len(transacciones) + 1
        /\ SubSeq(transacciones', 1, Len(transacciones)) = transacciones
        /\ \A i \in DOMAIN transacciones :
               transacciones[i].id < transacciones'[Len(transacciones')].id

C36_IdCreciente == [](C36_Estado) /\ [][C36_Paso]_vars

\* two workers hold their ok answers at once, with the ids 1 and 2
C36_Testigo ==
    \E v \in Workers : \E w \in Workers :
        /\ pc[v] = "cerrar" /\ resp[v] = enviar_ok(MSG_TX_OK, 1)
        /\ pc[w] = "cerrar" /\ resp[w] = enviar_ok(MSG_TX_OK, 2)
        /\ num_conn[w] < num_conn[v]

(***************************************************************************)
(* C37: a login denied because its username is locked changes nothing in   *)
(* the entry of that username, neither the counter nor ultimo_intento nor  *)
(* bloqueado_hasta, and the worker it was denied to goes to its close; so  *)
(* a lock always ends 15 minutes after the last attempt recorded, the      *)
(* failure that set it, however many attempts are denied meanwhile.        *)
(***************************************************************************)
C37_Estado ==
    \A u \in DOMAIN intentos_login :
        intentos_login[u].bloqueado_hasta # <<>>
            => /\ intentos_login[u].ultimo_intento # <<>>
               /\ intentos_login[u].bloqueado_hasta[1]
                      = intentos_login[u].ultimo_intento[1] + TIEMPO_BLOQUEO

C37_Paso ==
    \A w \in WorkersLogin :
        /\ (pc[w] = "login_gate" /\ pc'[w] # "login_gate"
            /\ Bloqueado(mensajes[w].datos.username))
               => /\ intentos_login' = intentos_login
                  /\ racha' = racha
                  /\ pc'[w] = "cerrar"
        /\ (pc[w] = "cerrar" /\ resp[w].texto = MSG_BLOQUEADO)
               => (pc'[w] # pc[w] => intentos_login' = intentos_login)

C37_DenegadoNoCuenta == [](C37_Estado) /\ [][C37_Paso]_vars

\* a login denied at minute 0 right after the 5th failure: the entry is as
\* that failure left it
C37_Testigo ==
    \E w \in WorkersLogin :
        /\ pc[w] = "cerrar"
        /\ resp[w].texto = MSG_BLOQUEADO
        /\ contador_conexiones = 6
        /\ intentos_login["alice"]
               = [intentos |-> MAX_INTENTOS_LOGIN,
                  bloqueado_hasta |-> <<TIEMPO_BLOQUEO>>,
                  ultimo_intento |-> <<0>>]

(***************************************************************************)
(* C38: a login whose username or password is missing or empty is answered *)
(* 'Faltan credenciales' and reaches neither the rate limiter nor the      *)
(* store: it counts as no failed attempt; a registro with a missing or     *)
(* empty field is answered 'Faltan datos de registro' and creates no user. *)
(***************************************************************************)
Incompleto(m) ==
    /\ m.ok
    /\ m.tipo \in {REGISTRO, LOGIN}
    /\ \/ "username" \notin DOMAIN m.datos
       \/ "password" \notin DOMAIN m.datos
       \/ m.datos.username = ""
       \/ m.datos.password = <<>>

C38_Estado ==
    \A w \in WorkersLogin :
        Incompleto(mensajes[w])
            => /\ pc[w] = "cerrar"
               /\ resp[w] = enviar_error(IF mensajes[w].tipo = LOGIN
                                         THEN MSG_FALTA_LOGIN
                                         ELSE MSG_FALTA_REGISTRO, 0)

C38_Paso ==
    \A w \in WorkersLogin :
        (Incompleto(mensajes[w]) \/ Incompleto(mensajes'[w]))
            => (pc'[w] # pc[w]
                   => /\ intentos_login' = intentos_login
                      /\ racha' = racha
                      /\ usuarios' = usuarios)

C38_FaltanCampos == [](C38_Estado) /\ [][C38_Paso]_vars

\* after a failed login that was counted, a login without password and a
\* registro without password are answered, the count and the table as before
C38_Testigo ==
    \E v \in WorkersLogin : \E w \in WorkersLogin :
        /\ pc[v] = "cerrar"
        /\ mensajes[v].tipo = LOGIN
        /\ resp[v] = enviar_error(MSG_FALTA_LOGIN, 0)
        /\ pc[w] = "cerrar"
        /\ mensajes[w].tipo = REGISTRO
        /\ resp[w] = enviar_error(MSG_FALTA_REGISTRO, 0)
        /\ Estado(intentos_login, "alice").intentos = 1
        /\ ~usuario_existe(usuarios, "bob")

(***************************************************************************)
(* C39: every request that passes the MAC check with a new nonce has the   *)
(* nonce recorded before it is dispatched, whatever the handler answers,   *)
(* and the same bytes sent again are answered with the replay error, never *)
(* with the original answer.  A worker past the validation that admitted   *)
(* its request has the row of its nonce in the table; only such a worker   *)
(* holds an answer of a handler; the server deletes no row; and a request  *)
(* that meets the row of its nonce at the SELECT is answered with the      *)
(* replay error.                                                           *)
(***************************************************************************)
RespuestasValidacion ==
    {SinRespuesta, enviar_error(MSG_MALFORMADO, 0), enviar_error(MSG_MAC, 0),
     enviar_error(MSG_NONCE, 0)}

C39_Estado ==
    \A w \in Workers :
        /\ (pc[w] \notin EnValidacion /\ admitido[w] = "True")
               => ConFila(Sobre(w).nonce)
        /\ resp[w] \notin RespuestasValidacion
               => (admitido[w] = "True" /\ ConFila(Sobre(w).nonce))

C39_Paso ==
    /\ nonces \subseteq nonces'
    /\ \A w \in Workers :
           (pc[w] = "val_select" /\ pc'[w] # "val_select"
            /\ ConFila(Sobre(w).nonce))
               => /\ pc'[w] = "cerrar"
                  /\ resp'[w] = enviar_error(MSG_NONCE, 0)

C39_NonceAntesDeDespachar == [](C39_Estado) /\ [][C39_Paso]_vars

\* a login answered 'Credenciales incorrectas', and the same bytes on the
\* next connection answered with the replay error
C39_Testigo ==
    \E v \in Workers : \E w \in Workers :
        /\ num_conn[v] < num_conn[w]
        /\ datos[v] = datos[w]
        /\ pc[v] = "cerrar"
        /\ resp[v].status = "error"
        /\ resp[v] \notin RespuestasValidacion
        /\ pc[w] = "cerrar"
        /\ resp[w] = enviar_error(MSG_NONCE, 0)

(***************************************************************************)
(* C40: a transaccion with a valid MAC and a new nonce is recorded whether *)
(* or not its username is registered, has logged in or is locked: its      *)
(* outcome is that of its fields and of the table of transactions alone,   *)
(* and it changes neither usuarios nor the login-attempt map.              *)
(***************************************************************************)
C40_Estado ==
    \A w \in WorkersLogin :
        (pc[w] # "libre" /\ mensajes[w].ok /\ mensajes[w].tipo = TRANSACCION)
            => /\ pc[w] \in {"tx_insert", "cerrar"}
               /\ pc[w] = "cerrar" =>
                      /\ resp[w].status = "ok"
                      /\ resp[w].texto = MSG_TX_OK
                      /\ resp[w].n \in DOMAIN transacciones
                      /\ transacciones[resp[w].n].username
                             = mensajes[w].datos.username

C40_Paso ==
    \A w \in WorkersLogin :
        (pc[w] = "tx_insert" /\ pc'[w] # "tx_insert")
            => /\ usuarios' = usuarios
               /\ intentos_login' = intentos_login
               /\ racha' = racha
               /\ Len(transacciones') = Len(transacciones) + 1
               /\ resp'[w] = enviar_ok(MSG_TX_OK, Len(transacciones) + 1)

C40_SinCuenta == [](C40_Estado) /\ [][C40_Paso]_vars

\* alice is locked and her transfer is answered ok; the table also holds a
\* transfer of bob, who has no row in usuarios and no attempt entry
C40_Testigo ==
    /\ Bloqueado("alice")
    /\ \E w \in WorkersLogin :
           /\ pc[w] = "cerrar"
           /\ mensajes[w].tipo = TRANSACCION
           /\ mensajes[w].datos.username = "alice"
           /\ resp[w].status = "ok"
           /\ Len(transacciones) = resp[w].n
    /\ \E i \in DOMAIN transacciones : transacciones[i].username = "bob"
    /\ ~usuario_existe(usuarios, "bob")
    /\ "bob" \notin DOMAIN intentos_login

====
